---- MODULE Spec2Model ----
(***************************************************************************)
(* Limit order book (rust_core/src/orderbook.rs) and matching engine       *)
(* (rust_core/src/matching_engine.rs).                                     *)
(*                                                                         *)
(* Prices and quantities are f64 in the source.  Here they are integers:   *)
(* a quantity is counted in units of 1e-12, so that the exhaustion         *)
(* threshold of consume_at_price (front.qty <= 1e-12) is Eps = 1 unit, and *)
(* a price is an integer number of ticks.  Sums and products are exact;    *)
(* binary rounding of f64 is not represented.                              *)
(*                                                                         *)
(* Reconnecting session loop run_ws (rust_core/src/stream/ws_client.rs),   *)
(* run by SpecWs.                                                          *)
(*                                                                         *)
(* Aggregator (rust_core/aggregator/src/lib.rs) with the venue connectors  *)
(* that feed it (rust_core/connectors) and the subscription loop that      *)
(* reads it (rust_python_bindings/src/lib.rs).  The order book and the     *)
(* aggregator do not share state: Spec runs the book with the aggregator   *)
(* at rest, SpecAgg runs the aggregator with the book at rest.             *)
(***************************************************************************)
EXTENDS Integers, Sequences, FiniteSets, TLC

VARIABLES book, call

VARIABLES conn, made, rx, accepted, bridge, tick, forwarded, bcast, subs, owner

VARIABLES ws

VARIABLES feed

VARIABLES reg

VARIABLES sig

VARIABLES poll

VARIABLES proc

VARIABLES lk

bookVars == <<book, call>>

aggVars == <<conn, made, rx, accepted, bridge, tick, forwarded, bcast, subs, owner>>

wsVars == <<ws>>

feedVars == <<feed>>

regVars == <<reg>>

sigVars == <<sig>>

pollVars == <<poll>>

procVars == <<proc>>

lockVars == <<lk>>

vars == <<book, call, conn, made, rx, accepted, bridge, tick, forwarded, bcast, subs, owner, ws, feed, reg, sig, poll, proc, lk>>

(* what the actions of one component leave alone *)
exceptBook == <<aggVars, wsVars, feedVars, regVars, sigVars, pollVars, procVars, lockVars>>

exceptAgg == <<bookVars, wsVars, feedVars, regVars, sigVars, pollVars, procVars, lockVars>>

exceptWs == <<bookVars, aggVars, feedVars, regVars, sigVars, pollVars, procVars, lockVars>>

exceptFeed == <<bookVars, aggVars, wsVars, regVars, sigVars, pollVars, procVars, lockVars>>

exceptReg == <<bookVars, aggVars, wsVars, feedVars, sigVars, pollVars, procVars, lockVars>>

exceptSig == <<aggVars, wsVars, feedVars, regVars, bookVars, pollVars, procVars, lockVars>>

exceptPoll == <<aggVars, wsVars, feedVars, regVars, sigVars, bookVars, procVars, lockVars>>

exceptProc == <<aggVars, wsVars, feedVars, regVars, sigVars, pollVars, bookVars, lockVars>>

exceptLocks == <<aggVars, wsVars, feedVars, regVars, sigVars, pollVars, procVars, bookVars>>

(* ---------------------------------------------------------------- bounds *)
MaxPrice == 2
MaxQty == 3
MaxNegQty == 1
MaxReq == 3
MaxTs == 1
MaxEntries == 2
MaxOrders == 2
MaxSeq == 3
MaxTicks == 3
InCap == 2
BcastCap == 1
MaxFails == 66
MaxHandles == 2
MaxDim == 2
MaxPoints == 3
MaxCoord == 1
MaxTrunc == 4
MaxPairs == 3
MaxEvents == 3
ProcInCap == 2
ProcOutCap == 1
MaxThreads == 2
MaxStarts == 3

(* exhaustion threshold of consume_at_price, in quantity units of 1e-12 *)
Eps == 1

(* run_ws: `backoff` is a u64, the delay is capped at 30 seconds *)
BackoffBits == 64
BackoffCap == 30

Prices == 1..MaxPrice
QtyVals == (0 - MaxNegQty)..MaxQty
ReqVals == (0 - MaxNegQty)..MaxReq
TsVals == 1..MaxTs
Sides == {"Buy", "Sell"}

LevelLists == UNION {[1..k -> Prices \X QtyVals] : k \in 0..MaxEntries}

(* ------------------------------------------------------------- utilities *)
Min(a, b) == IF a <= b THEN a ELSE b

RECURSIVE SumQty(_)
SumQty(q) == IF q = <<>> THEN 0 ELSE Head(q).qty + SumQty(Tail(q))

RECURSIVE Ascending(_)
Ascending(S) ==
  IF S = {} THEN <<>>
  ELSE LET m == CHOOSE x \in S : \A y \in S : x <= y
       IN <<m>> \o Ascending(S \ {m})

RECURSIVE Descending(_)
Descending(S) ==
  IF S = {} THEN <<>>
  ELSE LET m == CHOOSE x \in S : \A y \in S : x >= y
       IN <<m>> \o Descending(S \ {m})

RemoveKey(levels, p) == [k \in (DOMAIN levels) \ {p} |-> levels[k]]

PutKey(levels, p, q) == [k \in (DOMAIN levels) \cup {p} |-> IF k = p THEN q ELSE levels[k]]

(* ---------------------------------------------------------- OrderBookSide *)
Order(id, price, qty, t) == [id |-> id, price |-> price, qty |-> qty, ts |-> t]

SideNew(is_bid) == [levels |-> <<>>, is_bid |-> is_bid]

(* best_price that takes the first key for bids as for asks *)
best_price_unreversed(side) ==
  IF DOMAIN side.levels = {} THEN <<>>
  ELSE <<CHOOSE p \in DOMAIN side.levels : \A r \in DOMAIN side.levels : p <= r>>

best_price(side) ==
  IF DOMAIN side.levels = {} THEN <<>>
  ELSE IF side.is_bid
       THEN <<CHOOSE p \in DOMAIN side.levels : \A r \in DOMAIN side.levels : r <= p>>
       ELSE <<CHOOSE p \in DOMAIN side.levels : \A r \in DOMAIN side.levels : p <= r>>

RECURSIVE SumLevels(_, _)
SumLevels(levels, keys) ==
  IF keys = {} THEN 0
  ELSE LET p == CHOOSE k \in keys : TRUE
       IN SumQty(levels[p]) + SumLevels(levels, keys \ {p})

total_qty(side) == SumLevels(side.levels, DOMAIN side.levels)

(* add_limit with push_front in place of push_back *)
add_limit_front(side, id, price, qty, t) ==
  LET q == IF price \in DOMAIN side.levels THEN side.levels[price] ELSE <<>>
  IN [side EXCEPT !.levels = PutKey(side.levels, price, <<Order(id, price, qty, t)>> \o q)]

add_limit(side, id, price, qty, t) ==
  LET q == IF price \in DOMAIN side.levels THEN side.levels[price] ELSE <<>>
  IN [side EXCEPT !.levels = PutKey(side.levels, price, Append(q, Order(id, price, qty, t)))]

(* ConsumeLoop with `cost += take` in place of `cost += take * price` *)
RECURSIVE ConsumeLoop_unpriced(_, _)
ConsumeLoop_unpriced(acc, price) ==
  IF ~(acc.qty > 0) \/ acc.queue = <<>> THEN acc
  ELSE LET o == Head(acc.queue)
           take == Min(o.qty, acc.qty)
           left == o.qty - take
           queue == IF left <= Eps
                    THEN Tail(acc.queue)
                    ELSE <<[o EXCEPT !.qty = left]>> \o Tail(acc.queue)
       IN ConsumeLoop_unpriced([queue |-> queue,
                                qty |-> acc.qty - take,
                                filled |-> acc.filled + take,
                                cost |-> acc.cost + take,
                                fills |-> Append(acc.fills, <<o.id, take, price>>)], price)

(* the while loop of consume_at_price over one queue; acc is               *)
(* [queue, qty, filled, cost, fills]                                       *)
RECURSIVE ConsumeLoop(_, _)
ConsumeLoop(acc, price) ==
  IF ~(acc.qty > 0) \/ acc.queue = <<>> THEN acc
  ELSE LET o == Head(acc.queue)
           take == Min(o.qty, acc.qty)
           left == o.qty - take
           queue == IF left <= Eps
                    THEN Tail(acc.queue)
                    ELSE <<[o EXCEPT !.qty = left]>> \o Tail(acc.queue)
       IN ConsumeLoop([queue |-> queue,
                       qty |-> acc.qty - take,
                       filled |-> acc.filled + take,
                       cost |-> acc.cost + take * price,
                       fills |-> Append(acc.fills, <<o.id, take, price>>)], price)

(* consume_at_price that reduces a copy of the front order, not the queue *)
consume_at_price_copy(side, price, qty) ==
  IF price \notin DOMAIN side.levels
  THEN [side |-> side, filled |-> 0, cost |-> 0, fills |-> <<>>]
  ELSE LET r == ConsumeLoop([queue |-> side.levels[price], qty |-> qty,
                             filled |-> 0, cost |-> 0, fills |-> <<>>], price)
           levels == IF r.queue = <<>>
                     THEN RemoveKey(side.levels, price)
                     ELSE PutKey(side.levels, price,
                                 SubSeq(side.levels[price],
                                        Len(side.levels[price]) - Len(r.queue) + 1,
                                        Len(side.levels[price])))
       IN [side |-> [side EXCEPT !.levels = levels],
           filled |-> r.filled, cost |-> r.cost, fills |-> r.fills]

(* consume_at_price without the removal of an emptied level *)
consume_at_price_keep_level(side, price, qty) ==
  IF price \notin DOMAIN side.levels
  THEN [side |-> side, filled |-> 0, cost |-> 0, fills |-> <<>>]
  ELSE LET r == ConsumeLoop([queue |-> side.levels[price], qty |-> qty,
                             filled |-> 0, cost |-> 0, fills |-> <<>>], price)
       IN [side |-> [side EXCEPT !.levels = PutKey(side.levels, price, r.queue)],
           filled |-> r.filled, cost |-> r.cost, fills |-> r.fills]

consume_at_price(side, price, qty) ==
  IF price \notin DOMAIN side.levels
  THEN [side |-> side, filled |-> 0, cost |-> 0, fills |-> <<>>]
  ELSE LET r == ConsumeLoop([queue |-> side.levels[price], qty |-> qty,
                             filled |-> 0, cost |-> 0, fills |-> <<>>], price)
           levels == IF r.queue = <<>>
                     THEN RemoveKey(side.levels, price)
                     ELSE PutKey(side.levels, price, r.queue)
       IN [side |-> [side EXCEPT !.levels = levels],
           filled |-> r.filled, cost |-> r.cost, fills |-> r.fills]

(* price_iter without the reversal for bids *)
price_iter_unreversed(side) == Ascending(DOMAIN side.levels)

price_iter(side) ==
  IF side.is_bid THEN Descending(DOMAIN side.levels) ELSE Ascending(DOMAIN side.levels)

(* -------------------------------------------------------------- OrderBook *)
OrderBookNew == [bids |-> SideNew(TRUE), asks |-> SideNew(FALSE), ts |-> 0, seq |-> 1]

best_bid(b) == best_price(b.bids)

best_ask(b) == best_price(b.asks)

(* x / 2.0: a price that may fall between two ticks *)
Half(x) == [num |-> x, den |-> 2]

mid(b) ==
  LET bb == best_bid(b)
      ba == best_ask(b)
  IN IF bb # <<>> /\ ba # <<>> THEN <<Half(ba[1] + bb[1])>> ELSE <<>>

spread(b) ==
  LET bb == best_bid(b)
      ba == best_ask(b)
  IN IF bb # <<>> /\ ba # <<>> THEN <<ba[1] - bb[1]>> ELSE <<>>

(* one `for (p,q) in ...` loop of apply_snapshot; st is [side, seq] *)
(* SnapshotLoop that reads the counter without advancing it *)
RECURSIVE SnapshotLoop_same_id(_, _, _)
SnapshotLoop_same_id(st, entries, t) ==
  IF entries = <<>> THEN st
  ELSE LET p == Head(entries)[1]
           q == Head(entries)[2]
       IN IF q > 0
          THEN SnapshotLoop_same_id([side |-> add_limit(st.side, st.seq, p, q, t),
                                     seq |-> st.seq], Tail(entries), t)
          ELSE SnapshotLoop_same_id(st, Tail(entries), t)

RECURSIVE SnapshotLoop(_, _, _)
SnapshotLoop(st, entries, t) ==
  IF entries = <<>> THEN st
  ELSE LET p == Head(entries)[1]
           q == Head(entries)[2]
       IN IF q > 0
          THEN SnapshotLoop([side |-> add_limit(st.side, st.seq, p, q, t),
                             seq |-> st.seq + 1], Tail(entries), t)
          ELSE SnapshotLoop(st, Tail(entries), t)

(* apply_snapshot without the two clear() calls *)
apply_snapshot_no_clear(b, bid_l, ask_l, t) ==
  LET rb == SnapshotLoop([side |-> b.bids, seq |-> b.seq], bid_l, t)
      ra == SnapshotLoop([side |-> b.asks, seq |-> rb.seq], ask_l, t)
  IN [bids |-> rb.side, asks |-> ra.side, ts |-> t, seq |-> ra.seq]

(* apply_snapshot without `self.ts = ts` *)
apply_snapshot_stale_ts(b, bid_l, ask_l, t) ==
  LET cb == [b.bids EXCEPT !.levels = <<>>]
      ca == [b.asks EXCEPT !.levels = <<>>]
      rb == SnapshotLoop([side |-> cb, seq |-> b.seq], bid_l, t)
      ra == SnapshotLoop([side |-> ca, seq |-> rb.seq], ask_l, t)
  IN [bids |-> rb.side, asks |-> ra.side, ts |-> b.ts, seq |-> ra.seq]

apply_snapshot(b, bid_l, ask_l, t) ==
  LET cb == [b.bids EXCEPT !.levels = <<>>]
      ca == [b.asks EXCEPT !.levels = <<>>]
      rb == SnapshotLoop([side |-> cb, seq |-> b.seq], bid_l, t)
      ra == SnapshotLoop([side |-> ca, seq |-> rb.seq], ask_l, t)
  IN [bids |-> rb.side, asks |-> ra.side, ts |-> t, seq |-> ra.seq]

(* DeltaLoop with `*q < 0.0` in place of `*q <= 0.0` *)
RECURSIVE DeltaLoop_strict(_, _, _)
DeltaLoop_strict(st, entries, t) ==
  IF entries = <<>> THEN st
  ELSE LET p == Head(entries)[1]
           q == Head(entries)[2]
       IN IF q < 0
          THEN DeltaLoop_strict([st EXCEPT !.side.levels = RemoveKey(st.side.levels, p)],
                                Tail(entries), t)
          ELSE DeltaLoop_strict([side |-> add_limit(st.side, st.seq, p, q, t),
                                 seq |-> st.seq + 1], Tail(entries), t)

(* one `for (p, q) in ...` loop of apply_delta; st is [side, seq] *)
RECURSIVE DeltaLoop(_, _, _)
DeltaLoop(st, entries, t) ==
  IF entries = <<>> THEN st
  ELSE LET p == Head(entries)[1]
           q == Head(entries)[2]
       IN IF q <= 0
          THEN DeltaLoop([st EXCEPT !.side.levels = RemoveKey(st.side.levels, p)],
                         Tail(entries), t)
          ELSE DeltaLoop([side |-> add_limit(st.side, st.seq, p, q, t),
                          seq |-> st.seq + 1], Tail(entries), t)

apply_delta(b, bid_d, ask_d, t) ==
  LET rb == DeltaLoop([side |-> b.bids, seq |-> b.seq], bid_d, t)
      ra == DeltaLoop([side |-> b.asks, seq |-> rb.seq], ask_d, t)
  IN [bids |-> rb.side, asks |-> ra.side, ts |-> t, seq |-> ra.seq]

(* --------------------------------------------------------- matching engine *)
Fill(price, qty) == [price |-> price, qty |-> qty, cost |-> qty * price]

RECURSIVE PartsToFills(_)
PartsToFills(parts) ==
  IF parts = <<>> THEN <<>>
  ELSE <<Fill(Head(parts)[3], Head(parts)[2])>> \o PartsToFills(Tail(parts))

(* the `for p in it` loop of execute_market over one side; acc is          *)
(* [side, qty, filled, cost, fills, parts]                                 *)
RECURSIVE MarketLoop(_, _)
MarketLoop(acc, it) ==
  IF it = <<>> \/ acc.qty <= 0 THEN acc
  ELSE LET r == consume_at_price(acc.side, Head(it), acc.qty)
       IN MarketLoop([side |-> r.side,
                      qty |-> acc.qty - r.filled,
                      filled |-> acc.filled + r.filled,
                      cost |-> acc.cost + r.cost,
                      fills |-> acc.fills \o PartsToFills(r.fills),
                      parts |-> acc.parts \o r.fills], Tail(it))

(* execute_market whose Sell walks the asks as its Buy does *)
execute_market_asks_only(b, side, qty) ==
  LET r == MarketLoop([side |-> b.asks, qty |-> qty, filled |-> 0, cost |-> 0,
                       fills |-> <<>>, parts |-> <<>>], price_iter(b.asks))
  IN [book |-> [b EXCEPT !.asks = r.side],
      filled |-> r.filled, cost |-> r.cost, fills |-> r.fills, parts |-> r.parts]

execute_market(b, side, qty) ==
  LET start(s) == [side |-> s, qty |-> qty, filled |-> 0, cost |-> 0,
                   fills |-> <<>>, parts |-> <<>>]
  IN IF side = "Buy"
     THEN LET r == MarketLoop(start(b.asks), price_iter(b.asks))
          IN [book |-> [b EXCEPT !.asks = r.side],
              filled |-> r.filled, cost |-> r.cost, fills |-> r.fills, parts |-> r.parts]
     ELSE LET r == MarketLoop(start(b.bids), price_iter(b.bids))
          IN [book |-> [b EXCEPT !.bids = r.side],
              filled |-> r.filled, cost |-> r.cost, fills |-> r.fills, parts |-> r.parts]

place_limit(b, side, price, qty, t) ==
  IF side = "Buy"
  THEN [b EXCEPT !.bids = add_limit(b.bids, 0, price, qty, t)]
  ELSE [b EXCEPT !.asks = add_limit(b.asks, 0, price, qty, t)]

(* ===================================================================== run_ws *)
(* `backoff` is 1 after a connection and is doubled after every sleep, so  *)
(* it is 2^d modulo 2^64 for the number d of doublings.  ws.backoff keeps  *)
(* d for d < BackoffBits, and BackoffBits for the value 0 that the         *)
(* doubling of 2^63 wraps to.                                              *)
(* ws.pc      where run_ws stands: connecting, streaming, sleeping,        *)
(*            returned_err (the ? on the pong write), panicked             *)
(* ws.k       sleeps begun since the last successful connection            *)
(* ws.delay   seconds of the last sleep begun                              *)
(* ws.before  value of k when the last connection succeeded                *)
BackoffZero == BackoffBits

(* min(2^d, cap), doubling no further than the cap *)
RECURSIVE Pow2Capped(_, _, _)
Pow2Capped(d, acc, cap) ==
  IF acc >= cap THEN cap
  ELSE IF d = 0 THEN acc
  ELSE Pow2Capped(d - 1, 2 * acc, cap)

(* backoff.min(30) *)
backoff_min(b) == IF b = BackoffZero THEN 0 ELSE Pow2Capped(b, 1, BackoffCap)

(* backoff *= 2 exceeds u64 *)
DoublingOverflows(b) == b # BackoffZero /\ b + 1 = BackoffBits

(* backoff *= 2 where it does not overflow *)
doubled(b) == IF b = BackoffZero THEN BackoffZero ELSE b + 1

WsInit ==
  ws = [pc |-> "connecting", backoff |-> 0, k |-> 0, delay |-> 0, before |-> 0]

(* the sleep at the bottom of the loop begins *)
BeginSleep(w) ==
  [w EXCEPT !.pc = "sleeping", !.delay = backoff_min(w.backoff), !.k = w.k + 1]

(* WsConnectOk without `backoff = 1` *)
WsConnectOk_no_reset ==
  /\ ws.pc = "connecting"
  /\ ws' = [ws EXCEPT !.pc = "streaming", !.k = 0, !.before = ws.k]
  /\ UNCHANGED exceptWs

(* connect_async(url).await is Ok: backoff = 1 and the session starts *)
WsConnectOk ==
  /\ ws.pc = "connecting"
  /\ ws' = [ws EXCEPT !.pc = "streaming", !.backoff = 0, !.k = 0, !.before = ws.k]
  /\ UNCHANGED exceptWs

(* connect_async(url).await is Err: logged, then the sleep *)
WsConnectErr ==
  /\ ws.pc = "connecting"
  /\ ws.k < MaxFails
  /\ ws' = BeginSleep(ws)
  /\ UNCHANGED exceptWs

(* a text or binary message: nothing to do *)
WsData ==
  /\ ws.pc = "streaming"
  /\ UNCHANGED wsVars
  /\ UNCHANGED exceptWs

(* a ping whose pong is written: the session goes on *)
WsPong ==
  /\ ws.pc = "streaming"
  /\ UNCHANGED wsVars
  /\ UNCHANGED exceptWs

(* a ping whose pong cannot be written: ws.send(..).await? returns the Err *)
WsPongFail ==
  /\ ws.pc = "streaming"
  /\ ws' = [ws EXCEPT !.pc = "returned_err"]
  /\ UNCHANGED exceptWs

(* a close frame, a read error or the end of the stream: the session loop  *)
(* is left and the sleep begins                                            *)
WsSessionEnd ==
  /\ ws.pc = "streaming"
  /\ ws.k < MaxFails
  /\ ws' = BeginSleep(ws)
  /\ UNCHANGED exceptWs

(* the sleep is over and backoff *= 2 does not overflow *)
WsWake ==
  /\ ws.pc = "sleeping"
  /\ ~DoublingOverflows(ws.backoff)
  /\ ws' = [ws EXCEPT !.pc = "connecting", !.backoff = doubled(ws.backoff)]
  /\ UNCHANGED exceptWs

(* backoff *= 2 overflows in a build without overflow checks: it wraps to 0 *)
WsWakeWrap ==
  /\ ws.pc = "sleeping"
  /\ DoublingOverflows(ws.backoff)
  /\ ws' = [ws EXCEPT !.pc = "connecting", !.backoff = BackoffZero]
  /\ UNCHANGED exceptWs

(* backoff *= 2 overflows in a build with overflow checks: the task panics *)
WsWakePanic ==
  /\ ws.pc = "sleeping"
  /\ DoublingOverflows(ws.backoff)
  /\ ws' = [ws EXCEPT !.pc = "panicked"]
  /\ UNCHANGED exceptWs

NextWs ==
  \/ WsConnectOk \/ WsConnectErr
  \/ WsData \/ WsPong \/ WsPongFail \/ WsSessionEnd
  \/ WsWake \/ WsWakeWrap \/ WsWakePanic

(* ============================================================ venue feeds *)
(* One text frame of a venue session, as the JSON document it carries.     *)
(* A string field is absent, garbled (not a string, or a string that is    *)
(* not a number where a number is wanted) or ok with its value `v`; prices *)
(* are in tenths, so that 100.2 is 1002.  `n` is the length of a top-level *)
(* array; `name` and `pair` are the third and fourth elements of a Kraken  *)
(* array; `bids` and `asks` are the level arrays of a book message.        *)
FieldStates == {"absent", "garbled", "ok"}

SymFields == {[st |-> "absent", v |-> ""], [st |-> "garbled", v |-> ""],
              [st |-> "ok", v |-> "BTCUSDT"]}

NumFields(x) == {[st |-> "absent", v |-> 0], [st |-> "garbled", v |-> 0],
                 [st |-> "ok", v |-> x]}

NoField == [st |-> "absent", v |-> ""]

NoMsg == [json |-> "invalid", type |-> "absent", s |-> NoField,
          b |-> [st |-> "absent", v |-> 0], a |-> [st |-> "absent", v |-> 0],
          n |-> 0, name |-> "", pair |-> "", bids |-> "absent", asks |-> "absent"]

(* Option<T> as a sequence of length 0 or 1 *)
None == <<>>

Some(x) == <<x>>

unwrap_or(o, d) == IF o = None THEN d ELSE o[1]

(* v.get(k).and_then(|v| v.as_str()) *)
as_str(f) == IF f.st = "ok" THEN Some(f.v) ELSE None

(* ....and_then(|s| s.parse::<f64>().ok()) *)
parse_f64(f) == IF f.st = "ok" THEN Some(f.v) ELSE None

MarketTick(exchange, pair, bid, ask) ==
  [exchange |-> exchange, pair |-> pair, bid |-> bid, ask |-> ask]

(* the frames of the Binance ticker session: an array of n items that all  *)
(* carry the fields s, b, a, or one object with these fields               *)
BinanceMsgs ==
  {NoMsg} \cup
  {[NoMsg EXCEPT !.json = j, !.n = k, !.s = s, !.b = b, !.a = a] :
     j \in {"array"}, k \in 0..2, s \in SymFields, b \in NumFields(1001), a \in NumFields(1002)} \cup
  {[NoMsg EXCEPT !.json = "object", !.s = s, !.b = b, !.a = a] :
     s \in SymFields, b \in NumFields(1001), a \in NumFields(1002)}

(* the ticks run_binance_ws sends for a text frame *)
run_binance_ws(m) ==
  IF m.json = "invalid" THEN <<>>
  ELSE IF m.json = "array"
  THEN [i \in 1..m.n |-> MarketTick("binance", unwrap_or(as_str(m.s), ""),
                                    unwrap_or(parse_f64(m.b), 0), unwrap_or(parse_f64(m.a), 0))]
  ELSE IF as_str(m.s) # None /\ parse_f64(m.b) # None /\ parse_f64(m.a) # None
  THEN <<MarketTick("binance", as_str(m.s)[1], parse_f64(m.b)[1], parse_f64(m.a)[1])>>
  ELSE <<>>

(* the frames of the Coinbase ticker session: objects with a type field *)
CoinbaseTypes == {"absent", "ticker", "subscriptions", "snapshot", "l2update"}

CoinbaseMsgs ==
  {NoMsg} \cup
  {[NoMsg EXCEPT !.json = "object", !.type = t, !.s = s, !.b = b, !.a = a] :
     t \in {"absent", "ticker", "subscriptions"},
     s \in SymFields, b \in NumFields(1001), a \in NumFields(1002)}

(* the ticks run_coinbase_ws sends for a text frame *)
run_coinbase_ws(m) ==
  IF m.json = "invalid" THEN <<>>
  ELSE IF m.type = "ticker"
  THEN <<MarketTick("coinbase", unwrap_or(as_str(m.s), ""),
                    unwrap_or(parse_f64(m.b), 0), unwrap_or(parse_f64(m.a), 0))>>
  ELSE <<>>

(* the frames of the Kraken ticker session: an event object, or an array   *)
(* [channelId, data, channelName, pair] cut to its first n elements, where *)
(* data.b[0] and data.a[0] are the fields b and a                          *)
KrakenMsgs ==
  {NoMsg, [NoMsg EXCEPT !.json = "object"]} \cup
  {[NoMsg EXCEPT !.json = "array", !.n = k,
                 !.name = IF k >= 3 THEN "ticker" ELSE "",
                 !.pair = IF k >= 4 THEN p ELSE "", !.b = b, !.a = a] :
     k \in 2..4, p \in {"XBT/USD", "ETH/USD"}, b \in NumFields(1001), a \in NumFields(1002)}

(* the ticks run_kraken_ws sends for a text frame *)
run_kraken_ws(m) ==
  IF m.json = "array" /\ m.n >= 3 /\ parse_f64(m.b) # None /\ parse_f64(m.a) # None
  THEN <<MarketTick("kraken", m.name, parse_f64(m.b)[1], parse_f64(m.a)[1])>>
  ELSE <<>>

(* a level array of a book message as parse_coinbase_rest reads it: the    *)
(* entries that do not parse are filtered out, a missing key is no entries *)
parse_coinbase_rest(lv, p) == IF lv = "ok" THEN <<<<p, 1>>>> ELSE <<>>

ParsedBook(bids, asks) == [bids |-> bids, asks |-> asks]

(* the frames of the Coinbase level2 session *)
CoinbaseL2Msgs ==
  {NoMsg} \cup
  {[NoMsg EXCEPT !.json = "object", !.type = t, !.bids = x, !.asks = y] :
     t \in CoinbaseTypes, x \in FieldStates, y \in FieldStates}

(* Result<OrderBook, _> of parse_coinbase_l2_text as an Option *)
parse_coinbase_l2_text(m) ==
  IF m.json = "invalid" THEN None
  ELSE IF m.type = "snapshot"
  THEN Some(ParsedBook(parse_coinbase_rest(m.bids, 1001), parse_coinbase_rest(m.asks, 1003)))
  ELSE IF m.type = "l2update"
  THEN Some(ParsedBook(<<<<1000, 1>>>>, <<<<1002, 1>>>>))
  ELSE Some(ParsedBook(<<<<1000, 1>>>>, <<<<1002, 1>>>>))

(* the frames of the Kraken book session: an event object, or an array of  *)
(* n elements whose second element has the keys bs and as or lacks them    *)
KrakenBookMsgs ==
  {NoMsg, [NoMsg EXCEPT !.json = "object"]} \cup
  {[NoMsg EXCEPT !.json = "array", !.n = k, !.bids = x, !.asks = y] :
     k \in 1..4, x \in FieldStates, y \in FieldStates}

(* Result<OrderBook, _> of parse_kraken_ws_text as an Option *)
parse_kraken_ws_text(m) ==
  IF m.json = "invalid" THEN None
  ELSE IF m.json = "array" /\ m.n >= 2 /\ m.bids # "absent" /\ m.asks # "absent"
  THEN Some(ParsedBook(parse_coinbase_rest(m.bids, 1001), parse_coinbase_rest(m.asks, 1003)))
  ELSE Some(ParsedBook(<<>>, <<>>))

(* the last frame a session read and what was emitted for it *)
FeedInit == feed = [venue |-> "none", msg |-> NoMsg, out |-> <<>>]

Handled(venue, m, out) == [venue |-> venue, msg |-> m, out |-> out]

BinanceText ==
  /\ \E m \in BinanceMsgs : feed' = Handled("binance", m, run_binance_ws(m))
  /\ UNCHANGED exceptFeed

CoinbaseText ==
  /\ \E m \in CoinbaseMsgs : feed' = Handled("coinbase", m, run_coinbase_ws(m))
  /\ UNCHANGED exceptFeed

KrakenText ==
  /\ \E m \in KrakenMsgs : feed' = Handled("kraken", m, run_kraken_ws(m))
  /\ UNCHANGED exceptFeed

(* start_stream: if let Ok(ob) = parse_...(&txt) { ...; callback(ob) } *)
CoinbaseL2Text ==
  /\ \E m \in CoinbaseL2Msgs : feed' = Handled("coinbase_l2", m, parse_coinbase_l2_text(m))
  /\ UNCHANGED exceptFeed

KrakenBookText ==
  /\ \E m \in KrakenBookMsgs : feed' = Handled("kraken_book", m, parse_kraken_ws_text(m))
  /\ UNCHANGED exceptFeed

NextFeed == BinanceText \/ CoinbaseText \/ KrakenText \/ CoinbaseL2Text \/ KrakenBookText

(* ===================================================== connector handles *)
(* PyAggregator (rust_python_bindings/src/lib.rs): next_handle, the map    *)
(* `handles` from handle id to the stop sender, and the connector task     *)
(* spawned by each start call.                                             *)
(* reg.next_handle  the id the next start call returns                     *)
(* reg.handles      the ids that are keys of `handles`                     *)
(* reg.task[h]      the task started under h: its connector and where it   *)
(*                  stands (none, reading, sending, sleeping, ended)       *)
(* reg.signal[h]    the result of stop_tx.send(()) for h (none, err)       *)
(* reg.stopped      the ids for which stop_connector returned true         *)
(* reg.ret          the value the last call returned                       *)
HandleIds == 1..MaxHandles

Connectors == {"binance", "kraken", "coinbase", "coingecko"}

NoTask == [connector |-> "none", pc |-> "none"]

RegInit ==
  reg = [next_handle |-> 1, handles |-> {}, task |-> [h \in HandleIds |-> NoTask],
         signal |-> [h \in HandleIds |-> "none"], stopped |-> {}, ret |-> 0]

(* start_binance_ws, start_kraken_ws, start_coinbase_ws and                *)
(* start_coingecko_poll: the task is spawned with the sender of a new      *)
(* input channel only; the stop receiver _stop_rx stays in the start       *)
(* function and is dropped when it returns                                 *)
StartConnector ==
  /\ reg.next_handle <= MaxHandles
  /\ \E v \in Connectors :
       LET id == reg.next_handle
       IN reg' = [reg EXCEPT !.next_handle = id + 1,
                             !.handles = @ \cup {id},
                             !.task[id] = [connector |-> v, pc |-> "reading"],
                             !.ret = id]
  /\ UNCHANGED exceptReg

(* stop_connector(handle): true (1) if the handle was registered, else     *)
(* false (0); the stop sender finds its receiver dropped and send returns  *)
(* Err, which is discarded                                                 *)
StopConnector ==
  /\ \E h \in HandleIds :
       IF h \in reg.handles
       THEN reg' = [reg EXCEPT !.handles = @ \ {h}, !.signal[h] = "err",
                               !.stopped = @ \cup {h}, !.ret = 1]
       ELSE reg' = [reg EXCEPT !.ret = 0]
  /\ UNCHANGED exceptReg

(* a WebSocket connector reads a frame that gives a tick *)
TaskRead(h) ==
  /\ reg.task[h].pc = "reading"
  /\ reg.task[h].connector # "coingecko"
  /\ reg' = [reg EXCEPT !.task[h].pc = "sending"]
  /\ UNCHANGED exceptReg

(* a WebSocket connector fails to connect or its stream ends: it returns *)
TaskEnd(h) ==
  /\ reg.task[h].pc = "reading"
  /\ reg.task[h].connector # "coingecko"
  /\ reg' = [reg EXCEPT !.task[h].pc = "ended"]
  /\ UNCHANGED exceptReg

(* run_coingecko_poll: the request of a cycle gives a price, or fails *)
Poll(h) ==
  /\ reg.task[h].pc = "reading"
  /\ reg.task[h].connector = "coingecko"
  /\ \E next \in {"sending", "sleeping"} : reg' = [reg EXCEPT !.task[h].pc = next]
  /\ UNCHANGED exceptReg

(* tx.send(tick).await completes *)
TaskSend(h) ==
  /\ reg.task[h].pc = "sending"
  /\ reg' = [reg EXCEPT !.task[h].pc =
               IF reg.task[h].connector = "coingecko" THEN "sleeping" ELSE "reading"]
  /\ UNCHANGED exceptReg

(* run_coingecko_poll: sleep(interval).await is over *)
Wake(h) ==
  /\ reg.task[h].pc = "sleeping"
  /\ reg' = [reg EXCEPT !.task[h].pc = "reading"]
  /\ UNCHANGED exceptReg

NextReg ==
  \/ StartConnector
  \/ StopConnector
  \/ \E h \in HandleIds : TaskRead(h)
  \/ \E h \in HandleIds : TaskEnd(h)
  \/ \E h \in HandleIds : Poll(h)
  \/ \E h \in HandleIds : TaskSend(h)
  \/ \E h \in HandleIds : Wake(h)

(* ===================================================== truncated signature *)
(* signature_optimal_stopping/src/lib.rs.  A trajectory is a sequence of   *)
(* points, a point a sequence of d coordinates; coordinates are integers.  *)
(* sig is the last call: compute_truncated_signature(traj, trunc) with its *)
(* result `out`, or compute_feature_dim(d, trunc) with its result `dim`.   *)
Coords == 0..MaxCoord

Points(d) == [1..d -> Coords]

Trajectories == UNION {[1..n -> Points(d)] : n \in 0..MaxPoints, d \in 0..MaxDim}

RECURSIVE SumSeq(_)
SumSeq(s) == IF s = <<>> THEN 0 ELSE Head(s) + SumSeq(Tail(s))

(* the `for i in 1..traj.len()` loop: the differences of successive points *)
Increments(traj, d) ==
  [i \in 1..(Len(traj) - 1) |-> [k \in 1..d |-> traj[i + 1][k] - traj[i][k]]]

(* level 1, one feature: the sum of the increments in coordinate k *)
LevelOneSum(inc, k) == SumSeq([a \in 1..Len(inc) |-> inc[a][k]])

(* level 2, one feature: sum over a < b of inc[a][i] * inc[b][j] *)
LevelTwoSum(inc, i, j) ==
  SumSeq([a \in 1..Len(inc) |->
            SumSeq([b \in 1..Len(inc) |-> IF b > a THEN inc[a][i] * inc[b][j] ELSE 0])])

(* level 3, one feature: sum over a < b < c of inc[a][i]*inc[b][j]*inc[c][k] *)
LevelThreeSum(inc, i, j, k) ==
  SumSeq([a \in 1..Len(inc) |->
            SumSeq([b \in 1..Len(inc) |->
                      SumSeq([c \in 1..Len(inc) |->
                                IF b > a /\ c > b
                                THEN inc[a][i] * inc[b][j] * inc[c][k] ELSE 0])])])

(* `for k in 0..d { ...; feat.push(s) }` *)
RECURSIVE LevelOneLoop(_, _, _, _)
LevelOneLoop(inc, d, k, feat) ==
  IF k > d THEN feat
  ELSE LevelOneLoop(inc, d, k + 1, Append(feat, LevelOneSum(inc, k)))

(* `for i in 0..d { for j in 0..d { ...; feat.push(s) } }` *)
RECURSIVE LevelTwoLoop(_, _, _, _, _)
LevelTwoLoop(inc, d, i, j, feat) ==
  IF i > d THEN feat
  ELSE IF j > d THEN LevelTwoLoop(inc, d, i + 1, 1, feat)
  ELSE LevelTwoLoop(inc, d, i, j + 1, Append(feat, LevelTwoSum(inc, i, j)))

(* LevelThreeLoop whose innermost loop starts at j, not at 0 *)
RECURSIVE LevelThreeLoop_sorted(_, _, _, _, _, _)
LevelThreeLoop_sorted(inc, d, i, j, k, feat) ==
  IF i > d THEN feat
  ELSE IF j > d THEN LevelThreeLoop_sorted(inc, d, i + 1, 1, 1, feat)
  ELSE IF k > d THEN LevelThreeLoop_sorted(inc, d, i, j + 1, j + 1, feat)
  ELSE LevelThreeLoop_sorted(inc, d, i, j, k + 1, Append(feat, LevelThreeSum(inc, i, j, k)))

(* `for i in 0..d { for j in 0..d { for k in 0..d { ...; feat.push(s) } } }` *)
RECURSIVE LevelThreeLoop(_, _, _, _, _, _)
LevelThreeLoop(inc, d, i, j, k, feat) ==
  IF i > d THEN feat
  ELSE IF j > d THEN LevelThreeLoop(inc, d, i + 1, 1, 1, feat)
  ELSE IF k > d THEN LevelThreeLoop(inc, d, i, j + 1, 1, feat)
  ELSE LevelThreeLoop(inc, d, i, j, k + 1, Append(feat, LevelThreeSum(inc, i, j, k)))

BadInput == [ok |-> FALSE, feat |-> <<>>]

compute_truncated_signature(traj, trunc) ==
  IF trunc < 1 \/ trunc > 3 THEN BadInput
  ELSE IF traj = <<>> THEN BadInput
  ELSE LET d == Len(traj[1])
           inc == Increments(traj, d)
           f1 == IF trunc >= 1 THEN LevelOneLoop(inc, d, 1, <<>>) ELSE <<>>
           f2 == IF trunc >= 2 THEN LevelTwoLoop(inc, d, 1, 1, f1) ELSE f1
           f3 == IF trunc >= 3 THEN LevelThreeLoop(inc, d, 1, 1, 1, f2) ELSE f2
       IN [ok |-> TRUE, feat |-> f3]

compute_feature_dim(d, trunc) ==
  (IF trunc >= 1 THEN d ELSE 0) + (IF trunc >= 2 THEN d * d ELSE 0)
    + (IF trunc >= 3 THEN d * d * d ELSE 0)

NoSig == [op |-> "none", traj |-> <<>>, d |-> 0, trunc |-> 0, out |-> BadInput, dim |-> 0]

SigInit == sig = NoSig

ComputeTruncatedSignature ==
  /\ \E traj \in Trajectories, trunc \in 0..MaxTrunc :
       sig' = [NoSig EXCEPT !.op = "compute_truncated_signature", !.traj = traj,
                            !.trunc = trunc,
                            !.out = compute_truncated_signature(traj, trunc)]
  /\ UNCHANGED exceptSig

ComputeFeatureDim ==
  /\ \E d \in 0..MaxDim, trunc \in 0..MaxTrunc :
       sig' = [NoSig EXCEPT !.op = "compute_feature_dim", !.d = d, !.trunc = trunc,
                            !.dim = compute_feature_dim(d, trunc)]
  /\ UNCHANGED exceptSig

NextSig == ComputeTruncatedSignature \/ ComputeFeatureDim

(* ========================================================= CoinGecko poller *)
(* run_coingecko_poll (connectors/coingecko/src/rest.rs).                  *)
(* poll.pc      idle before the call, then request, sending or sleeping    *)
(* poll.pairs   the list of pairs given to the call                        *)
(* poll.i       the index of the pair the `for` loop is at                 *)
(* poll.res     what the requests of the running cycle gave, in order      *)
(* poll.out     the ticks sent in the running cycle                        *)
(* poll.hold    the tick being sent                                        *)
PairNames == {"bitcoin/usd", "ethereum"}

PairLists == UNION {[1..n -> PairNames] : n \in 0..MaxPairs}

(* client.get(&url)...send() fails; resp.text() fails; the text is not     *)
(* JSON; the JSON has no number at [id][vs]; or it has one                 *)
Outcomes ==
  {[kind |-> k, price |-> 0] : k \in {"failed", "unreadable", "unparsable", "missing"}}
    \cup {[kind |-> "price", price |-> x] : x \in 1..MaxPrice}

NoPoll == [pc |-> "idle", pairs |-> <<>>, i |-> 1, res |-> <<>>, out |-> <<>>, hold |-> <<>>]

PollInit == poll = NoPoll

(* the `for` loop moves to the next pair, or past the last one to the sleep *)
NextPair(p) ==
  IF p.i + 1 > Len(p.pairs)
  THEN [p EXCEPT !.i = p.i + 1, !.pc = "sleeping"]
  ELSE [p EXCEPT !.i = p.i + 1, !.pc = "request"]

(* run_coingecko_poll(tx, pairs, interval_ms) is called *)
PollStart ==
  /\ poll.pc = "idle"
  /\ \E l \in PairLists :
       poll' = [NoPoll EXCEPT !.pairs = l, !.pc = IF l = <<>> THEN "sleeping" ELSE "request"]
  /\ UNCHANGED exceptPoll

(* PollRequest that leaves the `for` loop on a request that gives no price *)
PollRequest_break_on_error ==
  /\ poll.pc = "request"
  /\ \E o \in Outcomes :
       LET p == [poll EXCEPT !.res = Append(@, o)]
       IN poll' = IF o.kind = "price"
                  THEN [p EXCEPT !.pc = "sending",
                                 !.hold = <<MarketTick("coingecko", poll.pairs[poll.i],
                                                       o.price, o.price)>>]
                  ELSE [p EXCEPT !.pc = "sleeping"]
  /\ UNCHANGED exceptPoll

(* one turn of the `for` loop up to the send: the request for pairs[i]     *)
(* and the reading of its answer                                           *)
PollRequest ==
  /\ poll.pc = "request"
  /\ \E o \in Outcomes :
       LET p == [poll EXCEPT !.res = Append(@, o)]
       IN poll' = IF o.kind = "price"
                  THEN [p EXCEPT !.pc = "sending",
                                 !.hold = <<MarketTick("coingecko", poll.pairs[poll.i],
                                                       o.price, o.price)>>]
                  ELSE NextPair(p)
  /\ UNCHANGED exceptPoll

(* let _ = tx.send(tick).await completes *)
PollSend ==
  /\ poll.pc = "sending"
  /\ poll' = NextPair([poll EXCEPT !.out = @ \o poll.hold, !.hold = <<>>])
  /\ UNCHANGED exceptPoll

(* sleep(interval).await is over: the next turn of the outer loop *)
PollWake ==
  /\ poll.pc = "sleeping"
  /\ poll' = [poll EXCEPT !.i = 1, !.res = <<>>, !.out = <<>>,
                          !.pc = IF poll.pairs = <<>> THEN "sleeping" ELSE "request"]
  /\ UNCHANGED exceptPoll

NextPoll == PollStart \/ PollRequest \/ PollSend \/ PollWake

(* ================================================== connector handle registry *)
(* The two mutexes of PyAggregator as the threads that call start_* and    *)
(* stop_connector take them.                                               *)
(* lk.next_handle  the value behind the next_handle mutex                  *)
(* lk.handles      the keys of the map behind the handles mutex            *)
(* lk.nh_owner     the thread that holds the next_handle mutex, 0 if free  *)
(* lk.h_owner      the thread that holds the handles mutex, 0 if free      *)
(* lk.pc[t]        where thread t stands in its call                       *)
(* lk.id[t]        the local `id` of thread t's start call                 *)
(* lk.arg[t]       the handle thread t's stop_connector was called with    *)
(* lk.returned     the ids the start calls have returned, in order         *)
(* lk.inserts[h]   how many times handles.insert was called with key h     *)
(* lk.fresh        every insert so far found its key absent                *)
Threads == 1..MaxThreads

LockIds == 1..(MaxStarts + 1)

(* Mutex::lock() that returns without waiting for the holder *)
mutex_free_always(holder) == TRUE

(* Mutex::lock() returns once no thread holds the mutex *)
mutex_free(holder) == holder = 0

LockInit ==
  lk = [next_handle |-> 1, handles |-> {}, nh_owner |-> 0, h_owner |-> 0,
        pc |-> [t \in Threads |-> "idle"], id |-> [t \in Threads |-> 0],
        arg |-> [t \in Threads |-> 0], returned |-> <<>>,
        inserts |-> [h \in LockIds |-> 0], fresh |-> TRUE]

(* start_*: let mut nh = self.next_handle.lock().unwrap() *)
StartLockNextHandle(t) ==
  /\ lk.pc[t] = "idle"
  /\ lk.next_handle <= MaxStarts
  /\ mutex_free(lk.nh_owner)
  /\ lk' = [lk EXCEPT !.nh_owner = t, !.pc[t] = "start_locked"]
  /\ UNCHANGED exceptLocks

(* start_*: let id = *nh *)
StartReadId(t) ==
  /\ lk.pc[t] = "start_locked"
  /\ lk' = [lk EXCEPT !.id[t] = lk.next_handle, !.pc[t] = "start_read"]
  /\ UNCHANGED exceptLocks

(* start_*: *nh += 1 *)
StartIncrement(t) ==
  /\ lk.pc[t] = "start_read"
  /\ lk' = [lk EXCEPT !.next_handle = lk.next_handle + 1, !.pc[t] = "start_drawn"]
  /\ UNCHANGED exceptLocks

(* start_*: self.handles.lock().unwrap(), with next_handle still held *)
StartLockHandles(t) ==
  /\ lk.pc[t] = "start_drawn"
  /\ mutex_free(lk.h_owner)
  /\ lk' = [lk EXCEPT !.h_owner = t, !.pc[t] = "start_insert"]
  /\ UNCHANGED exceptLocks

(* start_*: .insert(id, ConnectorHandle { stop_tx }); the guard of handles *)
(* is a temporary of the statement and is released at its end              *)
StartInsert(t) ==
  /\ lk.pc[t] = "start_insert"
  /\ lk' = [lk EXCEPT !.handles = lk.handles \cup {lk.id[t]},
                      !.inserts[lk.id[t]] = lk.inserts[lk.id[t]] + 1,
                      !.fresh = lk.fresh /\ lk.id[t] \notin lk.handles,
                      !.h_owner = 0,
                      !.pc[t] = "start_return"]
  /\ UNCHANGED exceptLocks

(* start_*: Ok(id); nh goes out of scope and next_handle is released *)
StartReturn(t) ==
  /\ lk.pc[t] = "start_return"
  /\ lk' = [lk EXCEPT !.returned = Append(lk.returned, lk.id[t]),
                      !.nh_owner = IF lk.nh_owner = t THEN 0 ELSE lk.nh_owner,
                      !.id[t] = 0,
                      !.pc[t] = "idle"]
  /\ UNCHANGED exceptLocks

(* stop_connector(handle): self.handles.lock().unwrap() *)
StopLockHandles(t) ==
  /\ lk.pc[t] = "idle"
  /\ mutex_free(lk.h_owner)
  /\ \E h \in LockIds :
       lk' = [lk EXCEPT !.h_owner = t, !.arg[t] = h, !.pc[t] = "stop_locked"]
  /\ UNCHANGED exceptLocks

(* stop_connector: .remove(&handle), the send on stop_tx if the key was    *)
(* there, and the release of handles at the end of the `if let`            *)
StopRemove(t) ==
  /\ lk.pc[t] = "stop_locked"
  /\ lk' = [lk EXCEPT !.handles = lk.handles \ {lk.arg[t]},
                      !.h_owner = IF lk.h_owner = t THEN 0 ELSE lk.h_owner,
                      !.arg[t] = 0,
                      !.pc[t] = "idle"]
  /\ UNCHANGED exceptLocks

(* a step of a thread that is inside a call *)
LockStep(t) ==
  \/ StartReadId(t)
  \/ StartIncrement(t)
  \/ StartLockHandles(t)
  \/ StartInsert(t)
  \/ StartReturn(t)
  \/ StopRemove(t)

NextLocks ==
  \/ \E t \in Threads : StartLockNextHandle(t)
  \/ \E t \in Threads : StartReadId(t)
  \/ \E t \in Threads : StartIncrement(t)
  \/ \E t \in Threads : StartLockHandles(t)
  \/ \E t \in Threads : StartInsert(t)
  \/ \E t \in Threads : StartReturn(t)
  \/ \E t \in Threads : StopLockHandles(t)
  \/ \E t \in Threads : StopRemove(t)

(* ================================================================ aggregator *)
(* Two input channels, each fed by one connector task and drained by one   *)
(* bridging task, and two subscribers of the broadcast channel.  The k-th  *)
(* tick a connector makes on channel c is <<c, k>>; the connectors make    *)
(* MaxTicks ticks between them.                                            *)
Chans == {"A", "B"}
Subscribers == {"S1", "S2"}
Ticks == Chans \X (1..MaxTicks)

Last(q) == q[Len(q)]

Range(q) == {q[i] : i \in 1..Len(q)}

IsPrefix(p, q) == Len(p) <= Len(q) /\ SubSeq(q, 1, Len(p)) = p

(* ----------------------------------------------- tokio::sync::mpsc, bounded *)
(* rx.recv() that takes the newest buffered value *)
mpsc_recv_newest(q) == [tick |-> Last(q), rest |-> SubSeq(q, 1, Len(q) - 1)]

(* rx.recv() on a non-empty buffer: the oldest value *)
mpsc_recv(q) == [tick |-> Head(q), rest |-> Tail(q)]

(* tx.send(tick).await on a channel without a capacity *)
mpsc_has_room_unbounded(q) == TRUE

(* tx.send(tick).await completes only while the buffer has room *)
mpsc_has_room(q) == Len(q) < InCap

mpsc_send(q, t) == Append(q, t)

(* the connector task owns the only sender of its channel: the sender is   *)
(* dropped when the connector function returns                             *)
SendersDropped(c) == conn[c] \in {"returned_ok", "returned_err"}

(* rx.recv() returns None as soon as every sender is dropped *)
RecvNone_unflushed(c) == SendersDropped(c)

(* rx.recv() returns None: every sender dropped and the buffer drained *)
RecvNone(c) == SendersDropped(c) /\ rx[c] = <<>>

(* --------------------------------------------------- tokio::sync::broadcast *)
(* bcast is every value the channel has stored, oldest first; the channel  *)
(* retains the last BcastCap of them.  A receiver is a cursor: the number  *)
(* of stored values that lie before the one it reads next.                 *)
rx_cnt == Cardinality({s \in Subscribers : subs[s].on})

(* send that puts the value in front of the stored ones *)
broadcast_send_front(b, n, t) == IF n = 0 THEN b ELSE <<t>> \o b

(* send: with no receiver the value is returned in an Err and not stored *)
broadcast_send(b, n, t) == IF n = 0 THEN b ELSE Append(b, t)

(* the receiver at cursor nx has missed values that were overwritten *)
Behind(b, nx) == Len(b) - nx > BcastCap

(* recv that skips the overwritten values without the lagged signal *)
broadcast_recv_silent_skip(b, nx) ==
  IF Behind(b, nx)
  THEN [kind |-> "tick", next |-> Len(b) - BcastCap + 1,
        tick |-> <<b[Len(b) - BcastCap + 1]>>]
  ELSE [kind |-> "tick", next |-> nx + 1, tick |-> <<b[nx + 1]>>]

(* recv with a value or a lag to report: Err(Lagged) moves the cursor to   *)
(* the oldest retained value, Ok(tick) returns the value at the cursor     *)
broadcast_recv(b, nx) ==
  IF Behind(b, nx)
  THEN [kind |-> "lagged", next |-> Len(b) - BcastCap, tick |-> <<>>]
  ELSE [kind |-> "tick", next |-> nx + 1, tick |-> <<b[nx + 1]>>]

(* ------------------------------------------------------------------ state *)
(* conn[c]      where connector c stands: connecting, reading, sending,    *)
(*              returned_ok, returned_err                                  *)
(* made[c]      number of ticks connector c has built                      *)
(* rx[c]        buffer of input channel c                                  *)
(* accepted[c]  every tick input channel c has accepted, in order          *)
(* bridge[c]    where bridging task c stands: recv, send, done             *)
(* tick[c]      the tick bridging task c holds between recv and send       *)
(* forwarded[c] every tick bridging task c has passed to tx_b.send         *)
(* bcast        the broadcast channel                                      *)
(* subs[s]      subscriber s: subscribed (on), cursor (next), ticks given  *)
(*              to the callback (got), last recv result (last) and the     *)
(*              number of lagged signals seen (lags), and what the loop    *)
(*              returned (ret: none while it runs, ok)                     *)
(* owner        the Aggregator and with it its broadcast sender: alive or  *)
(*              dropped                                                    *)
NoSub ==
  [on |-> FALSE, next |-> 0, got |-> <<>>, last |-> "none", lags |-> 0, ret |-> "none"]

RECURSIVE SumMade(_)
SumMade(C) ==
  IF C = {} THEN 0
  ELSE LET c == CHOOSE x \in C : TRUE IN made[c] + SumMade(C \ {c})

AggInit ==
  /\ conn = [c \in Chans |-> "connecting"]
  /\ made = [c \in Chans |-> 0]
  /\ rx = [c \in Chans |-> <<>>]
  /\ accepted = [c \in Chans |-> <<>>]
  /\ bridge = [c \in Chans |-> "recv"]
  /\ tick = [c \in Chans |-> <<>>]
  /\ forwarded = [c \in Chans |-> <<>>]
  /\ bcast = <<>>
  /\ subs = [s \in Subscribers |-> NoSub]
  /\ owner = "alive"

(* ------------------------------------------------------- connector task c *)
(* connect_async(url).await succeeds *)
ConnectOk(c) ==
  /\ conn[c] = "connecting"
  /\ conn' = [conn EXCEPT ![c] = "reading"]
  /\ UNCHANGED <<made, rx, accepted, bridge, tick, forwarded, bcast, subs>>
  /\ UNCHANGED <<owner, exceptAgg>>

(* connect_async(url).await? fails: the function returns the error *)
ConnectFail(c) ==
  /\ conn[c] = "connecting"
  /\ conn' = [conn EXCEPT ![c] = "returned_err"]
  /\ UNCHANGED <<made, rx, accepted, bridge, tick, forwarded, bcast, subs>>
  /\ UNCHANGED <<owner, exceptAgg>>

(* read.next() yields a text message from which a tick is built *)
ReadTick(c) ==
  /\ conn[c] = "reading"
  /\ SumMade(Chans) < MaxTicks
  /\ made' = [made EXCEPT ![c] = made[c] + 1]
  /\ conn' = [conn EXCEPT ![c] = "sending"]
  /\ UNCHANGED <<rx, accepted, bridge, tick, forwarded, bcast, subs>>
  /\ UNCHANGED <<owner, exceptAgg>>

(* read.next() yields Some(Err(e)) or a message that gives no tick: it is  *)
(* logged or ignored and the loop reads on                                 *)
ReadSkip(c) ==
  /\ conn[c] = "reading"
  /\ UNCHANGED aggVars
  /\ UNCHANGED exceptAgg

(* read.next() yields None: the loop ends and the function returns Ok(())  *)
StreamEnd(c) ==
  /\ conn[c] = "reading"
  /\ conn' = [conn EXCEPT ![c] = "returned_ok"]
  /\ UNCHANGED <<made, rx, accepted, bridge, tick, forwarded, bcast, subs>>
  /\ UNCHANGED <<owner, exceptAgg>>

(* tx.send(tick).await completes *)
SendDone(c) ==
  /\ conn[c] = "sending"
  /\ mpsc_has_room(rx[c])
  /\ rx' = [rx EXCEPT ![c] = mpsc_send(rx[c], <<c, made[c]>>)]
  /\ accepted' = [accepted EXCEPT ![c] = Append(accepted[c], <<c, made[c]>>)]
  /\ conn' = [conn EXCEPT ![c] = "reading"]
  /\ UNCHANGED <<made, bridge, tick, forwarded, bcast, subs>>
  /\ UNCHANGED <<owner, exceptAgg>>

(* -------------------------------------------------------- bridging task c *)
(* rx.recv().await returns Some(tick) *)
BridgeRecv(c) ==
  /\ bridge[c] = "recv"
  /\ rx[c] # <<>>
  /\ LET r == mpsc_recv(rx[c])
     IN /\ tick' = [tick EXCEPT ![c] = <<r.tick>>]
        /\ rx' = [rx EXCEPT ![c] = r.rest]
  /\ bridge' = [bridge EXCEPT ![c] = "send"]
  /\ UNCHANGED <<conn, made, accepted, forwarded, bcast, subs>>
  /\ UNCHANGED <<owner, exceptAgg>>

(* BridgeSend that waits until no subscriber would lose a value *)
BridgeSend_waiting(c) ==
  /\ bridge[c] = "send"
  /\ \A s \in Subscribers : subs[s].on => Len(bcast) - subs[s].next < BcastCap
  /\ bcast' = broadcast_send(bcast, rx_cnt, tick[c][1])
  /\ forwarded' = [forwarded EXCEPT ![c] = Append(forwarded[c], tick[c][1])]
  /\ tick' = [tick EXCEPT ![c] = <<>>]
  /\ bridge' = [bridge EXCEPT ![c] = "recv"]
  /\ UNCHANGED <<conn, made, rx, accepted, subs>>
  /\ UNCHANGED <<owner, exceptAgg>>

(* let _ = tx_b.send(tick): returns at once, its result is dropped *)
BridgeSend(c) ==
  /\ bridge[c] = "send"
  /\ bcast' = broadcast_send(bcast, rx_cnt, tick[c][1])
  /\ forwarded' = [forwarded EXCEPT ![c] = Append(forwarded[c], tick[c][1])]
  /\ tick' = [tick EXCEPT ![c] = <<>>]
  /\ bridge' = [bridge EXCEPT ![c] = "recv"]
  /\ UNCHANGED <<conn, made, rx, accepted, subs>>
  /\ UNCHANGED <<owner, exceptAgg>>

(* rx.recv().await returns None: the while loop and the task end *)
BridgeEnd(c) ==
  /\ bridge[c] = "recv"
  /\ RecvNone(c)
  /\ bridge' = [bridge EXCEPT ![c] = "done"]
  /\ UNCHANGED <<conn, made, rx, accepted, tick, forwarded, bcast, subs>>
  /\ UNCHANGED <<owner, exceptAgg>>

(* ------------------------------------------------------------ subscriber s *)
(* Subscribe whose receiver starts at the oldest value the channel retains *)
Subscribe_from_oldest(s) ==
  /\ owner = "alive"
  /\ ~subs[s].on
  /\ subs' = [subs EXCEPT ![s] = [NoSub EXCEPT !.on = TRUE,
                                               !.next = IF Len(bcast) > BcastCap
                                                        THEN Len(bcast) - BcastCap
                                                        ELSE 0]]
  /\ UNCHANGED <<conn, made, rx, accepted, bridge, tick, forwarded, bcast>>
  /\ UNCHANGED <<owner, exceptAgg>>

(* agg.subscribe(): a new receiver that sees the values sent from now on *)
Subscribe(s) ==
  /\ owner = "alive"
  /\ ~subs[s].on
  /\ subs' = [subs EXCEPT ![s] = [NoSub EXCEPT !.on = TRUE, !.next = Len(bcast)]]
  /\ UNCHANGED <<conn, made, rx, accepted, bridge, tick, forwarded, bcast>>
  /\ UNCHANGED <<owner, exceptAgg>>

(* Recv whose loop breaks on Err(Lagged) as it does on Err(Closed) *)
Recv_lag_ends(s) ==
  /\ subs[s].on
  /\ subs[s].ret = "none"
  /\ subs[s].next < Len(bcast)
  /\ LET r == broadcast_recv(bcast, subs[s].next)
     IN subs' = [subs EXCEPT ![s] = [@ EXCEPT !.next = r.next,
                                              !.got = @ \o r.tick,
                                              !.last = r.kind,
                                              !.lags = IF r.kind = "lagged" THEN @ + 1 ELSE @,
                                              !.ret = IF r.kind = "lagged" THEN "ok" ELSE @]]
  /\ UNCHANGED <<conn, made, rx, accepted, bridge, tick, forwarded, bcast>>
  /\ UNCHANGED <<owner, exceptAgg>>

(* Recv that hands the newest tick to the callback ahead of the earlier ones *)
Recv_newest_first(s) ==
  /\ subs[s].on
  /\ subs[s].ret = "none"
  /\ subs[s].next < Len(bcast)
  /\ LET r == broadcast_recv(bcast, subs[s].next)
     IN subs' = [subs EXCEPT ![s] = [@ EXCEPT !.next = r.next,
                                              !.got = r.tick \o @,
                                              !.last = r.kind,
                                              !.lags = IF r.kind = "lagged" THEN @ + 1 ELSE @]]
  /\ UNCHANGED <<conn, made, rx, accepted, bridge, tick, forwarded, bcast>>
  /\ UNCHANGED <<owner, exceptAgg>>

(* Recv that takes the value away from every subscriber *)
Recv_work_queue(s) ==
  /\ subs[s].on
  /\ subs[s].ret = "none"
  /\ subs[s].next < Len(bcast)
  /\ LET r == broadcast_recv(bcast, subs[s].next)
     IN subs' = [x \in Subscribers |->
                   IF x = s
                   THEN [subs[s] EXCEPT !.next = r.next,
                                        !.got = subs[s].got \o r.tick,
                                        !.last = r.kind,
                                        !.lags = IF r.kind = "lagged" THEN @ + 1 ELSE @]
                   ELSE IF subs[x].on /\ subs[x].next < r.next
                        THEN [subs[x] EXCEPT !.next = r.next]
                        ELSE subs[x]]
  /\ UNCHANGED <<conn, made, rx, accepted, bridge, tick, forwarded, bcast>>
  /\ UNCHANGED <<owner, exceptAgg>>

(* one turn of the subscription loop: rx.recv().await returns Ok(tick),    *)
(* which is given to the callback, or Err(Lagged), after which the loop    *)
(* continues                                                               *)
Recv(s) ==
  /\ subs[s].on
  /\ subs[s].ret = "none"
  /\ subs[s].next < Len(bcast)
  /\ LET r == broadcast_recv(bcast, subs[s].next)
     IN subs' = [subs EXCEPT ![s] = [@ EXCEPT !.next = r.next,
                                              !.got = @ \o r.tick,
                                              !.last = r.kind,
                                              !.lags = IF r.kind = "lagged" THEN @ + 1 ELSE @]]
  /\ UNCHANGED <<conn, made, rx, accepted, bridge, tick, forwarded, bcast>>
  /\ UNCHANGED <<owner, exceptAgg>>

(* every broadcast sender is gone: the Aggregator's own and the clone of   *)
(* every bridging task                                                     *)
AllSendersDropped == owner = "dropped" /\ \A c \in Chans : bridge[c] = "done"

(* the PyAggregator, and the Aggregator it owns, is dropped; the running   *)
(* subscription loops hold their receivers only                            *)
DropAggregator ==
  /\ owner = "alive"
  /\ owner' = "dropped"
  /\ UNCHANGED <<conn, made, rx, accepted, bridge, tick, forwarded, bcast, subs>>
  /\ UNCHANGED exceptAgg

(* rx.recv().await returns Err(Closed), with every sender gone and nothing *)
(* left to read: the loop breaks and the future completes with Ok(())      *)
RecvClosed(s) ==
  /\ subs[s].on
  /\ subs[s].ret = "none"
  /\ AllSendersDropped
  /\ subs[s].next = Len(bcast)
  /\ subs' = [subs EXCEPT ![s] = [@ EXCEPT !.last = "closed", !.ret = "ok"]]
  /\ UNCHANGED <<conn, made, rx, accepted, bridge, tick, forwarded, bcast, owner>>
  /\ UNCHANGED exceptAgg

NextAgg ==
  \/ \E c \in Chans : ConnectOk(c)
  \/ \E c \in Chans : ConnectFail(c)
  \/ \E c \in Chans : ReadTick(c)
  \/ \E c \in Chans : ReadSkip(c)
  \/ \E c \in Chans : StreamEnd(c)
  \/ \E c \in Chans : SendDone(c)
  \/ \E c \in Chans : BridgeRecv(c)
  \/ \E c \in Chans : BridgeSend(c)
  \/ \E c \in Chans : BridgeEnd(c)
  \/ \E s \in Subscribers : Subscribe(s)
  \/ \E s \in Subscribers : Recv(s)

(* the aggregator with its end of life *)
NextAggClose ==
  \/ NextAgg
  \/ DropAggregator
  \/ \E s \in Subscribers : RecvClosed(s)

(* ========================================================== book processor *)
(* spawn_processor (rust_core/src/stream/processor.rs): one task that owns *)
(* an OrderBook, applies the events of its input channel and sends a clone *)
(* of the book after each.  An event is a JSON value: its "type" and its   *)
(* "ts", which may be absent.                                              *)
(* proc.in_tx    the caller's input sender: alive or dropped               *)
(* proc.events   every event the input channel accepted, in order          *)
(* proc.in_q     the buffer of the input channel                           *)
(* proc.pc       where the task stands: recv, send, done                   *)
(* proc.state    the task's OrderBook                                      *)
(* proc.hold     the clone the task is sending                             *)
(* proc.out_q    the buffer of the output channel                          *)
(* proc.emitted  every book the output channel accepted, in order          *)
(* proc.out_rx   the caller's output receiver: alive or dropped            *)
Events == {[type |-> ty, ts |-> t] : ty \in {"snapshot", "delta"},
                                     t \in {None} \cup {Some(x) : x \in TsVals}}

(* OrderBook::with_snapshot(bids, asks, ts): the book replaced by the lists *)
with_snapshot(b, bids, asks, t) == apply_snapshot(b, bids, asks, t)

(* the value-returning OrderBook::apply_delta that the processor calls *)
with_delta(b, bid_d, ask_d, t) == apply_delta(b, bid_d, ask_d, t)

(* the body of the `while let` up to the send *)
process_event(state, ev) ==
  IF ev.type = "snapshot"
  THEN with_snapshot(state, <<>>, <<>>, unwrap_or(ev.ts, 0))
  ELSE with_delta(state, <<>>, <<>>, unwrap_or(ev.ts, 0))

ProcInit ==
  proc = [in_tx |-> "alive", events |-> <<>>, in_q |-> <<>>, pc |-> "recv",
          state |-> OrderBookNew, hold |-> <<>>, out_q |-> <<>>, emitted |-> <<>>,
          out_rx |-> "alive"]

(* the caller's in_tx.send(ev).await completes *)
ProcSubmit ==
  /\ proc.in_tx = "alive"
  /\ Len(proc.events) < MaxEvents
  /\ Len(proc.in_q) < ProcInCap
  /\ \E ev \in Events :
       proc' = [proc EXCEPT !.events = Append(@, ev), !.in_q = mpsc_send(@, ev)]
  /\ UNCHANGED exceptProc

(* the caller drops the input sender: the input channel closes *)
ProcCloseInput ==
  /\ proc.in_tx = "alive"
  /\ proc' = [proc EXCEPT !.in_tx = "dropped"]
  /\ UNCHANGED exceptProc

(* ProcRecv that clones the book before it applies the event *)
ProcRecv_clone_before ==
  /\ proc.pc = "recv"
  /\ proc.in_q # <<>>
  /\ LET r == mpsc_recv(proc.in_q)
         next == process_event(proc.state, r.tick)
     IN proc' = [proc EXCEPT !.in_q = r.rest, !.state = next, !.hold = <<proc.state>>,
                             !.pc = "send"]
  /\ UNCHANGED exceptProc

(* in_rx.recv().await returns Some(ev): the event is applied to the book   *)
(* and the book is cloned for the send                                     *)
ProcRecv ==
  /\ proc.pc = "recv"
  /\ proc.in_q # <<>>
  /\ LET r == mpsc_recv(proc.in_q)
         next == process_event(proc.state, r.tick)
     IN proc' = [proc EXCEPT !.in_q = r.rest, !.state = next, !.hold = <<next>>,
                             !.pc = "send"]
  /\ UNCHANGED exceptProc

(* out_tx.send(state.clone()).await completes: the output has room *)
ProcEmit ==
  /\ proc.pc = "send"
  /\ proc.out_rx = "alive"
  /\ Len(proc.out_q) < ProcOutCap
  /\ proc' = [proc EXCEPT !.out_q = mpsc_send(@, proc.hold[1]),
                          !.emitted = Append(@, proc.hold[1]),
                          !.hold = <<>>, !.pc = "recv"]
  /\ UNCHANGED exceptProc

(* out_tx.send(..).await returns Err, the receiver being dropped: `let _ =` *)
(* discards the error and the book                                         *)
ProcEmitFail ==
  /\ proc.pc = "send"
  /\ proc.out_rx = "dropped"
  /\ proc' = [proc EXCEPT !.hold = <<>>, !.pc = "recv"]
  /\ UNCHANGED exceptProc

(* in_rx.recv().await returns None: the loop and the task end *)
ProcEnd ==
  /\ proc.pc = "recv"
  /\ proc.in_tx = "dropped"
  /\ proc.in_q = <<>>
  /\ proc' = [proc EXCEPT !.pc = "done"]
  /\ UNCHANGED exceptProc

(* the caller's out_rx.recv().await returns a book *)
ProcTake ==
  /\ proc.out_rx = "alive"
  /\ proc.out_q # <<>>
  /\ proc' = [proc EXCEPT !.out_q = mpsc_recv(@).rest]
  /\ UNCHANGED exceptProc

(* the caller drops the output receiver, and with it the buffered books *)
ProcDropOutput ==
  /\ proc.out_rx = "alive"
  /\ proc' = [proc EXCEPT !.out_rx = "dropped", !.out_q = <<>>]
  /\ UNCHANGED exceptProc

NextProc ==
  \/ ProcSubmit \/ ProcCloseInput
  \/ ProcRecv \/ ProcEmit \/ ProcEmitFail \/ ProcEnd
  \/ ProcTake \/ ProcDropOutput

(* ------------------------------------------------------------ state machine *)
(* call records the last operation: its name, its arguments, the book it   *)
(* was applied to (pre) and, for execute_market, the returned triple       *)
(* (filled, cost, fills) and the (id, qty, price) parts it was built from;  *)
(* for the top-of-book reads, the four values returned.                    *)
NoCall == [op |-> "new", side |-> "Buy", price |-> 0, qty |-> 0,
           bid_l |-> <<>>, ask_l |-> <<>>, t |-> 0, pre |-> OrderBookNew,
           filled |-> 0, cost |-> 0, fills |-> <<>>, parts |-> <<>>,
           best_bid |-> <<>>, best_ask |-> <<>>, mid |-> <<>>, spread |-> <<>>]

RECURSIVE CountOrders(_, _)
CountOrders(levels, keys) ==
  IF keys = {} THEN 0
  ELSE LET p == CHOOSE k \in keys : TRUE
       IN Len(levels[p]) + CountOrders(levels, keys \ {p})

NumOrders(side) == CountOrders(side.levels, DOMAIN side.levels)

(* the part of the unbounded state space that is explored *)
Bounded(b) ==
  /\ b.seq <= MaxSeq
  /\ NumOrders(b.bids) + NumOrders(b.asks) <= MaxOrders

InputLists == {l \in LevelLists \X LevelLists : Len(l[1]) + Len(l[2]) <= MaxEntries}

Init ==
  /\ book = OrderBookNew
  /\ call = NoCall
  /\ AggInit
  /\ WsInit
  /\ FeedInit
  /\ RegInit
  /\ SigInit
  /\ PollInit
  /\ ProcInit
  /\ LockInit

ApplySnapshot ==
  /\ call.op = "new"
  /\ \E l \in InputLists, t \in TsVals :
       LET nb == apply_snapshot(book, l[1], l[2], t)
       IN /\ Bounded(nb)
          /\ book' = nb
          /\ call' = [NoCall EXCEPT !.op = "apply_snapshot", !.bid_l = l[1],
                                    !.ask_l = l[2], !.t = t, !.pre = book]
  /\ UNCHANGED exceptBook

ApplyDelta ==
  /\ call.op = "new"
  /\ \E l \in InputLists, t \in TsVals :
       LET nb == apply_delta(book, l[1], l[2], t)
       IN /\ Bounded(nb)
          /\ book' = nb
          /\ call' = [NoCall EXCEPT !.op = "apply_delta", !.bid_l = l[1],
                                    !.ask_l = l[2], !.t = t, !.pre = book]
  /\ UNCHANGED exceptBook

PlaceLimit ==
  /\ call.op = "new"
  /\ \E side \in Sides, price \in Prices, qty \in QtyVals, t \in TsVals :
       LET nb == place_limit(book, side, price, qty, t)
       IN /\ Bounded(nb)
          /\ book' = nb
          /\ call' = [NoCall EXCEPT !.op = "place_limit", !.side = side, !.price = price,
                                    !.qty = qty, !.t = t, !.pre = book]
  /\ UNCHANGED exceptBook

ExecuteMarket ==
  /\ call.op = "new"
  /\ \E side \in Sides, qty \in ReqVals :
       LET r == execute_market(book, side, qty)
       IN /\ book' = r.book
          /\ call' = [NoCall EXCEPT !.op = "execute_market", !.side = side, !.qty = qty,
                                    !.pre = book, !.filled = r.filled, !.cost = r.cost,
                                    !.fills = r.fills, !.parts = r.parts]
  /\ UNCHANGED exceptBook

(* best_bid, best_ask, mid and spread take &self: they return a value and  *)
(* have no access to change the book                                       *)
ReadTop ==
  /\ call.op = "new"
  /\ call' = [NoCall EXCEPT !.op = "read", !.pre = book,
                            !.best_bid = best_bid(book), !.best_ask = best_ask(book),
                            !.mid = mid(book), !.spread = spread(book)]
  /\ UNCHANGED book
  /\ UNCHANGED exceptBook

(* the caller takes the returned value; the book is ready for the next call *)
Return ==
  /\ call.op # "new"
  /\ call' = NoCall
  /\ UNCHANGED book
  /\ UNCHANGED exceptBook

Next == ApplySnapshot \/ ApplyDelta \/ PlaceLimit \/ ExecuteMarket \/ ReadTop \/ Return

Spec == Init /\ [][Next]_vars

(* run_ws alone *)
SpecWs == Init /\ [][NextWs]_vars

(* the venue sessions alone, one text frame at a time *)
SpecFeed == Init /\ [][NextFeed]_vars

(* the connector tasks and the calls on the handle registry.  The runtime  *)
(* runs a task that is ready: a send into the input channel completes (the *)
(* bridging task drains it), a CoinGecko request ends within its timeout   *)
(* and a sleep ends.  Nothing is assumed of what a venue sends.            *)
RegFair ==
  \A h \in HandleIds : WF_vars(TaskSend(h)) /\ WF_vars(Poll(h)) /\ WF_vars(Wake(h))

SpecReg == Init /\ [][NextReg]_vars /\ RegFair

(* the aggregator alone *)
SpecAgg == Init /\ [][NextAgg]_vars

(* the tokio runtime runs every spawned task that is ready: a connector    *)
(* whose send has room and a bridging task with something to do make their *)
(* step; nothing is assumed of the subscribers                             *)
ProducersFair ==
  \A c \in Chans :
    /\ WF_vars(SendDone(c))
    /\ WF_vars(BridgeRecv(c))
    /\ WF_vars(BridgeSend(c))
    /\ WF_vars(BridgeEnd(c))

SpecAggProducers == Init /\ [][NextAgg]_vars /\ ProducersFair

(* every subscriber besides keeps running its subscription loop *)
SubscribersFair == \A s \in Subscribers : WF_vars(Recv(s))

SpecAggFair == Init /\ [][NextAgg]_vars /\ ProducersFair /\ SubscribersFair

(* the aggregator up to the drop of the Aggregator; the subscription loops *)
(* keep running until they return                                         *)
LoopsFair == \A s \in Subscribers : WF_vars(Recv(s)) /\ WF_vars(RecvClosed(s))

SpecAggClose == Init /\ [][NextAggClose]_vars /\ ProducersFair /\ LoopsFair

(* the signature functions alone, one call at a time *)
SpecSig == Init /\ [][NextSig]_vars

(* the CoinGecko poller alone *)
SpecPoll == Init /\ [][NextPoll]_vars

(* the book processor with its caller.  The runtime runs the processor     *)
(* task whenever it is ready; nothing is assumed of the caller.            *)
ProcFair == WF_vars(ProcRecv) /\ WF_vars(ProcEmit) /\ WF_vars(ProcEmitFail) /\ WF_vars(ProcEnd)

SpecProc == Init /\ [][NextProc]_vars /\ ProcFair

(* the handle registry under calls from several threads *)
SpecLocks == Init /\ [][NextLocks]_vars

(* ------------------------------------------------- reading the last call *)
IsExec == call.op = "execute_market"

(* the side execute_market consumes: asks for Buy, bids for Sell *)
Consumed(b) == IF call.side = "Buy" THEN b.asks ELSE b.bids

(* p is strictly better priced than r on the consumed side *)
Better(p, r) == IF call.side = "Buy" THEN p < r ELSE p > r

PartsAt(parts, p) == SelectSeq(parts, LAMBDA x : x[3] = p)

RECURSIVE SumFillQty(_)
SumFillQty(fs) == IF fs = <<>> THEN 0 ELSE Head(fs).qty + SumFillQty(Tail(fs))

RECURSIVE SumFillValue(_)
SumFillValue(fs) ==
  IF fs = <<>> THEN 0 ELSE Head(fs).price * Head(fs).qty + SumFillValue(Tail(fs))

(* ---------------------------------------------------------------- claims *)

(* C1: price-time priority.  For every execute_market with qty > 0 the     *)
(* fills come best price first; a fill at a price is made only after every *)
(* order of every strictly better level has been taken whole; and the      *)
(* fills at one price take the orders of that level's queue from the front *)
(* in order, every one but the last whole.                                 *)
C1_PriceTimePriority ==
  (IsExec /\ call.qty > 0) =>
    LET S == Consumed(call.pre).levels
        parts == call.parts
        n == Len(parts)
    IN /\ Len(call.fills) = n
       /\ \A i \in 1..n :
            /\ call.fills[i].price = parts[i][3]
            /\ call.fills[i].qty = parts[i][2]
            /\ parts[i][3] \in DOMAIN S
       /\ \A i \in 1..n : \A j \in 1..n :
            i < j => ~Better(parts[j][3], parts[i][3])
       /\ \A i \in 1..n : \A r \in DOMAIN S :
            Better(r, parts[i][3]) =>
              LET before == PartsAt(SubSeq(parts, 1, i - 1), r)
              IN /\ Len(before) = Len(S[r])
                 /\ \A k \in 1..Len(before) : before[k][2] = S[r][k].qty
       /\ \A p \in DOMAIN S :
            LET fs == PartsAt(parts, p)
            IN /\ Len(fs) <= Len(S[p])
               /\ \A k \in 1..Len(fs) :
                    /\ fs[k][1] = S[p][k].id
                    /\ fs[k][2] <= S[p][k].qty
                    /\ (k < Len(fs) => fs[k][2] = S[p][k].qty)

(* a market order that walked two price levels *)
C1_Witness ==
  /\ IsExec /\ call.qty > 0
  /\ Len(call.parts) = 2
  /\ call.parts[1][3] # call.parts[2][3]
  /\ call.parts[1][2] > 0 /\ call.parts[2][2] > 0

(* C2: the returned cost is the sum of price x qty over the returned       *)
(* fills, each fill's cost field is its price x its qty, and the returned  *)
(* filled quantity is the sum of the fills' quantities.                    *)
C2_CostIsSumOfFills ==
  IsExec =>
    /\ call.cost = SumFillValue(call.fills)
    /\ call.filled = SumFillQty(call.fills)
    /\ \A i \in 1..Len(call.fills) :
         call.fills[i].cost = call.fills[i].price * call.fills[i].qty

(* a market order with two fills at different prices and a positive cost *)
C2_Witness ==
  /\ IsExec
  /\ Len(call.fills) = 2
  /\ call.fills[1].price # call.fills[2].price
  /\ call.fills[2].qty > 1
  /\ call.cost > call.filled

(* C3: execute_market never reports a filled quantity greater than the     *)
(* total resting quantity of the consumed side just before the call.       *)
C3_FilledWithinDepth ==
  IsExec => call.filled <= total_qty(Consumed(call.pre))

(* the value price x qty of everything resting on a side *)
RECURSIVE SumValue(_)
SumValue(q) == IF q = <<>> THEN 0 ELSE Head(q).price * Head(q).qty + SumValue(Tail(q))

RECURSIVE SumLevelValues(_, _)
SumLevelValues(levels, keys) ==
  IF keys = {} THEN 0
  ELSE LET p == CHOOSE k \in keys : TRUE
       IN SumValue(levels[p]) + SumLevelValues(levels, keys \ {p})

SideValue(side) == SumLevelValues(side.levels, DOMAIN side.levels)

(* C4: execute_market with qty > 0 returns with filled = qty or with the   *)
(* consumed side empty; when qty exceeds the side's depth D it returns     *)
(* filled = D and the cost of those D units, as an ordinary result.        *)
C4_StopsOnlyWhenDone ==
  (IsExec /\ call.qty > 0) =>
    LET D == total_qty(Consumed(call.pre))
    IN /\ call.filled = call.qty \/ DOMAIN Consumed(book).levels = {}
       /\ call.qty > D =>
            /\ call.filled = D
            /\ call.cost = SideValue(Consumed(call.pre))
            /\ DOMAIN Consumed(book).levels = {}

(* what execute_market leaves of the consumed side when an order whose     *)
(* remainder after its fill is at most eps is dropped: per level, the      *)
(* orders behind the last one filled, preceded by that order reduced by    *)
(* the amount taken if more than eps of it remains                         *)
MutatedAsReported(eps) ==
  LET S == Consumed(call.pre).levels
      T == Consumed(book).levels
  IN /\ DOMAIN T \subseteq DOMAIN S
     /\ \A p \in DOMAIN S :
          LET fs == PartsAt(call.parts, p)
              k == Len(fs)
              q == S[p]
          IN IF k = 0
             THEN p \in DOMAIN T /\ T[p] = q
             ELSE /\ k <= Len(q)
                  /\ LET rem == q[k].qty - fs[k][2]
                         rest == SubSeq(q, k + 1, Len(q))
                         exp == IF rem > eps
                                THEN <<[q[k] EXCEPT !.qty = rem]>> \o rest
                                ELSE rest
                     IN IF exp = <<>> THEN p \notin DOMAIN T
                        ELSE p \in DOMAIN T /\ T[p] = exp

(* C5 as stated: the consumed side's total after the call is its total     *)
(* before minus filled; fully consumed orders and levels are gone, a       *)
(* partially filled front order stays at the head reduced by the amount    *)
(* taken, levels beyond the last fill are unchanged.                       *)
C5_MutatesExactlyWhatItReports ==
  IsExec =>
    /\ total_qty(Consumed(book)) = total_qty(Consumed(call.pre)) - call.filled
    /\ MutatedAsReported(0)

(* C5 amended: the same up to the exhaustion threshold.  A partially       *)
(* filled front order stays only if more than 1e-12 of it remains and is   *)
(* dropped otherwise, so the total after the call is the total before      *)
(* minus filled minus a dropped remainder between 0 and 1e-12.             *)
C5_MutatesWhatItReportsUpToEps ==
  IsExec =>
    LET d == total_qty(Consumed(call.pre)) - call.filled - total_qty(Consumed(book))
    IN /\ 0 <= d /\ d <= Eps
       /\ MutatedAsReported(Eps)

(* asks [(1,1),(2,3)] after Buy 2 become [(2,2)]: one order consumed with  *)
(* its level, the next one partially filled and kept                       *)
C5_Witness ==
  /\ IsExec /\ call.side = "Buy" /\ call.qty = 2
  /\ DOMAIN call.pre.asks.levels = {1, 2}
  /\ Len(call.parts) = 2
  /\ call.parts[1][3] = 1 /\ call.parts[2][3] = 2
  /\ DOMAIN book.asks.levels = {2}
  /\ Len(book.asks.levels[2]) = 1
  /\ book.asks.levels[2][1].qty = 2
  /\ call.pre.asks.levels[2][1].qty = 3

(* ------------------------------------------------------------ apply_delta *)
IsDelta == call.op = "apply_delta"

(* entry i of list l is the last entry of l for its price *)
LastForPrice(l, i) == \A j \in (i + 1)..Len(l) : l[j][1] # l[i][1]

(* no entry behind entry i of l puts a positive quantity at its price *)
NotReadded(l, i) == \A j \in (i + 1)..Len(l) : l[j][1] # l[i][1] \/ l[j][2] <= 0

(* C6 as stated: after apply_delta, for every entry (price, qty) with      *)
(* qty <= 0 of bid_deltas (resp. ask_deltas) the bid (resp. ask) side has  *)
(* no level at that price.                                                 *)
C6_NonPositiveDeltaRemovesLevel ==
  IsDelta =>
    /\ \A i \in 1..Len(call.bid_l) :
         call.bid_l[i][2] <= 0 => call.bid_l[i][1] \notin DOMAIN book.bids.levels
    /\ \A i \in 1..Len(call.ask_l) :
         call.ask_l[i][2] <= 0 => call.ask_l[i][1] \notin DOMAIN book.asks.levels

(* C6 amended: after apply_delta, for every entry (price, qty) with        *)
(* qty <= 0 that no later entry of the same list follows with the same     *)
(* price and a positive quantity, the side has no level at that price.     *)
C6_LastNonPositiveDeltaRemovesLevel ==
  IsDelta =>
    /\ \A i \in 1..Len(call.bid_l) :
         (call.bid_l[i][2] <= 0 /\ NotReadded(call.bid_l, i))
           => call.bid_l[i][1] \notin DOMAIN book.bids.levels
    /\ \A i \in 1..Len(call.ask_l) :
         (call.ask_l[i][2] <= 0 /\ NotReadded(call.ask_l, i))
           => call.ask_l[i][1] \notin DOMAIN book.asks.levels

(* bids [(1,q)] and apply_delta(bid_deltas = [(1,0)]): the level was there *)
(* before the call and is gone after it                                    *)
C6_Witness ==
  /\ IsDelta
  /\ \E i \in 1..Len(call.bid_l) :
       /\ call.bid_l[i][2] <= 0
       /\ call.bid_l[i][1] \in DOMAIN call.pre.bids.levels
       /\ call.bid_l[i][1] \notin DOMAIN book.bids.levels

(* C7: deltas encode absolute level size.  After apply_delta, a price      *)
(* whose last entry in the list is (price, qty) with qty > 0 rests exactly *)
(* qty on that side, whatever rested there before.                         *)
C7_DeltaSetsAbsoluteSize ==
  IsDelta =>
    /\ \A i \in 1..Len(call.bid_l) :
         (call.bid_l[i][2] > 0 /\ LastForPrice(call.bid_l, i)) =>
           /\ call.bid_l[i][1] \in DOMAIN book.bids.levels
           /\ SumQty(book.bids.levels[call.bid_l[i][1]]) = call.bid_l[i][2]
    /\ \A i \in 1..Len(call.ask_l) :
         (call.ask_l[i][2] > 0 /\ LastForPrice(call.ask_l, i)) =>
           /\ call.ask_l[i][1] \in DOMAIN book.asks.levels
           /\ SumQty(book.asks.levels[call.ask_l[i][1]]) = call.ask_l[i][2]

(* ---------------------------------------------------------- apply_snapshot *)
IsSnapshot == call.op = "apply_snapshot"

(* a book without its order ids and its id counter *)
ShapeOfQueue(q) == [i \in 1..Len(q) |-> [price |-> q[i].price, qty |-> q[i].qty, ts |-> q[i].ts]]

ShapeOfSide(side) == [p \in DOMAIN side.levels |-> ShapeOfQueue(side.levels[p])]

ShapeOfBook(b) == [bids |-> ShapeOfSide(b.bids), asks |-> ShapeOfSide(b.asks), ts |-> b.ts]

(* C8: apply_snapshot is idempotent.  Applying the snapshot that has just  *)
(* been applied once more gives the same levels, quantities, queue order   *)
(* and timestamp (ids and the id counter apart).                           *)
C8_SnapshotIdempotent ==
  IsSnapshot =>
    ShapeOfBook(apply_snapshot(book, call.bid_l, call.ask_l, call.t)) = ShapeOfBook(book)

(* a snapshot with two positive entries applied to a book that held orders *)
C8_Witness ==
  /\ IsSnapshot
  /\ NumOrders(book.bids) + NumOrders(book.asks) = 2
  /\ NumOrders(call.pre.bids) + NumOrders(call.pre.asks) > 0

(* the queue a snapshot list l builds at price p: its entries at p with    *)
(* qty > 0, in input order                                                 *)
SnapshotQueue(l, p, t) ==
  LET es == SelectSeq(l, LAMBDA e : e[1] = p /\ e[2] > 0)
  IN [i \in 1..Len(es) |-> [price |-> p, qty |-> es[i][2], ts |-> t]]

SnapshotLevels(l, t) ==
  [p \in {l[i][1] : i \in {j \in 1..Len(l) : l[j][2] > 0}} |-> SnapshotQueue(l, p, t)]

AllOrders(side) ==
  UNION {{side.levels[p][i] : i \in 1..Len(side.levels[p])} : p \in DOMAIN side.levels}

(* C9: apply_snapshot is a full replace.  After apply_snapshot(bids, asks, *)
(* ts) the book holds the input entries with qty > 0, one order each at    *)
(* its price on its side in input order, and nothing else; no order from   *)
(* before survives (every id is fresh) and the book timestamp is ts.       *)
C9_SnapshotFullReplace ==
  IsSnapshot =>
    /\ ShapeOfSide(book.bids) = SnapshotLevels(call.bid_l, call.t)
    /\ ShapeOfSide(book.asks) = SnapshotLevels(call.ask_l, call.t)
    /\ book.ts = call.t
    /\ \A o \in AllOrders(book.bids) \cup AllOrders(book.asks) :
         o.id >= call.pre.seq /\ o.id < book.seq

(* a snapshot with a positive and a non-positive entry replacing a book    *)
(* that held orders on both sides                                          *)
C9_Witness ==
  /\ IsSnapshot
  /\ DOMAIN call.pre.bids.levels # {} /\ DOMAIN call.pre.asks.levels # {}
  /\ \E i \in 1..Len(call.ask_l) : call.ask_l[i][2] <= 0
  /\ \E i \in 1..Len(call.ask_l) : call.ask_l[i][2] > 0
  /\ DOMAIN book.bids.levels = {}
  /\ NumOrders(book.asks) = 1

(* -------------------------------------------------------------- invariant *)
(* C10: no price key on either side maps to an empty queue.                *)
C10_NoEmptyLevel ==
  /\ \A p \in DOMAIN book.bids.levels : book.bids.levels[p] # <<>>
  /\ \A p \in DOMAIN book.asks.levels : book.asks.levels[p] # <<>>

(* a market order that emptied one level of two and left the other         *)
C10_Witness ==
  /\ IsExec
  /\ Cardinality(DOMAIN Consumed(call.pre).levels) = 2
  /\ Cardinality(DOMAIN Consumed(book).levels) = 1
  /\ call.filled > 0

(* ------------------------------------------------------------ place_limit *)
IsPlace == call.op = "place_limit"

(* the side place_limit rests the order on: bids for Buy, asks for Sell *)
Rested(b) == IF call.side = "Buy" THEN b.bids ELSE b.asks

QueueAt(side, p) == IF p \in DOMAIN side.levels THEN side.levels[p] ELSE <<>>

(* C11: place_limit appends the order at the tail of the queue at its      *)
(* price on the matching side and on no other queue; the order's id is     *)
(* drawn from the book's sequence counter: it is the counter's value       *)
(* before the call, it differs from the id of every order already in the   *)
(* book, and the counter has advanced past it.                             *)
C11_PlaceLimitDrawsFreshId ==
  IsPlace =>
    LET q == QueueAt(Rested(book), call.price)
        o == q[Len(q)]
    IN /\ q # <<>>
       /\ q = Append(QueueAt(Rested(call.pre), call.price), o)
       /\ o.price = call.price /\ o.qty = call.qty /\ o.ts = call.t
       /\ o.id = call.pre.seq
       /\ \A x \in AllOrders(call.pre.bids) \cup AllOrders(call.pre.asks) : x.id # o.id
       /\ book.seq > o.id

(* ------------------------------------------------------- top-of-book reads *)
IsRead == call.op = "read"

(* C12: best_bid is the highest bid price and best_ask the lowest ask      *)
(* price, or no value when that side is empty; mid is                      *)
(* (best_bid + best_ask) / 2 and spread is best_ask - best_bid exactly     *)
(* when both sides are non-empty, and no value otherwise; a read returns   *)
(* and leaves the book as it was.                                          *)
C12_TopOfBookReads ==
  IsRead =>
    LET B == DOMAIN book.bids.levels
        A == DOMAIN book.asks.levels
    IN /\ book = call.pre
       /\ IF B = {} THEN call.best_bid = <<>>
          ELSE /\ Len(call.best_bid) = 1
               /\ call.best_bid[1] \in B
               /\ \A p \in B : p <= call.best_bid[1]
       /\ IF A = {} THEN call.best_ask = <<>>
          ELSE /\ Len(call.best_ask) = 1
               /\ call.best_ask[1] \in A
               /\ \A p \in A : call.best_ask[1] <= p
       /\ IF A = {} \/ B = {} THEN call.mid = <<>> /\ call.spread = <<>>
          ELSE /\ call.mid = <<[num |-> call.best_bid[1] + call.best_ask[1], den |-> 2]>>
               /\ call.spread = <<call.best_ask[1] - call.best_bid[1]>>

(* a read of a book with bids at 1 and asks at 2: mid 3/2, spread 1 *)
C12_Witness ==
  /\ IsRead
  /\ DOMAIN book.bids.levels = {1} /\ DOMAIN book.asks.levels = {2}
  /\ call.best_bid = <<1>> /\ call.best_ask = <<2>>
  /\ call.mid = <<Half(3)>> /\ call.spread = <<1>>

(* a read of a book with two bid levels and no asks *)
C12_WitnessOneSided ==
  /\ IsRead
  /\ DOMAIN book.bids.levels = {1, 2} /\ DOMAIN book.asks.levels = {}
  /\ call.best_bid = <<2>> /\ call.mid = <<>>

(* ------------------------------------------------------- input validation *)
(* an entry of a snapshot or delta list with a negative quantity *)
HasNegative(l) == \E i \in 1..Len(l) : l[i][2] < 0

(* C13: apply_snapshot and apply_delta given an entry with a negative      *)
(* quantity reject the input and leave the book as it was before the call. *)
C13_NegativeEntryRejected ==
  ((IsSnapshot \/ IsDelta) /\ (HasNegative(call.bid_l) \/ HasNegative(call.ask_l)))
    => book = call.pre

(* ================================================== claims on the aggregator *)
(* the ticks input channel c holds or its bridging task is about to publish *)
InFlight(c) == Range(rx[c]) \cup Range(tick[c])

(* C14: every tick an input channel has accepted is eventually passed to   *)
(* the broadcast send by that channel's bridging task, exactly once and in *)
(* the order accepted (the forwarded ticks are at every moment a prefix of *)
(* the accepted ones), whether or not anyone is subscribed at that moment. *)
C14_AcceptedTicksForwardedInOrder ==
  /\ [](\A c \in Chans : IsPrefix(forwarded[c], accepted[c]))
  /\ \A c \in Chans : \A k \in 1..MaxTicks :
       (Len(accepted[c]) >= k) ~> (Len(forwarded[c]) >= k /\ forwarded[c][k] = <<c, k>>)

(* channel A forwarded two ticks with nobody subscribed, then a third to a *)
(* subscriber                                                              *)
C14_Witness ==
  /\ Len(forwarded["A"]) = 3
  /\ forwarded["A"] = accepted["A"]
  /\ Len(bcast) = 1

(* subscriber s completes a receive in this step *)
Received(s) == subs[s].on /\ subs'[s] # subs[s]

(* C15: fan-out, not a work queue.  A receive by one subscriber changes    *)
(* neither the broadcast channel nor any other subscriber; and every tick  *)
(* that is in an input channel while a subscriber is subscribed is         *)
(* eventually received by that subscriber, unless the subscriber lags.     *)
C15_FanOut ==
  /\ [][\A s \in Subscribers :
          Received(s) => /\ bcast' = bcast
                         /\ \A r \in Subscribers \ {s} : subs'[r] = subs[r]]_vars
  /\ \A s \in Subscribers : \A t \in Ticks :
       (subs[s].on /\ t \in InFlight(t[1]))
         ~> (t \in Range(subs[s].got) \/ subs[s].lags > 0)

(* ticks sent on A and on B after S1 and S2 subscribed: both received both *)
(* and neither lagged                                                      *)
C15_Witness ==
  /\ \A s \in Subscribers :
       /\ subs[s].lags = 0
       /\ Range(subs[s].got) = {<<"A", 1>>, <<"B", 1>>}

(* the ticks of q that came through input channel c, in the order of q *)
FromChan(q, c) == SelectSeq(q, LAMBDA t : t[1] = c)

(* C16: per-producer FIFO end to end.  For every subscriber and every      *)
(* input channel, the ticks of that channel the subscriber has received    *)
(* are in the order the connector sent them: their numbers increase.       *)
C16_PerProducerFifo ==
  \A s \in Subscribers : \A c \in Chans :
    LET q == FromChan(subs[s].got, c)
    IN \A i \in 1..Len(q) : \A j \in 1..Len(q) : i < j => q[i][2] < q[j][2]

(* a subscriber that lagged and then received tick 2 and tick 3 of channel *)
(* A, which both waited in the input channel                               *)
C16_Witness ==
  \E s \in Subscribers :
    /\ subs[s].lags > 0
    /\ FromChan(subs[s].got, "A") = <<<<"A", 2>>, <<"A", 3>>>>

(* a subscriber that received two ticks of A with a tick of B in between   *)
C16_WitnessInterleaved ==
  \E s \in Subscribers : subs[s].got = <<<<"A", 1>>, <<"B", 1>>, <<"A", 2>>>>

(* the oldest tick the broadcast channel still retains *)
OldestRetained == bcast[Len(bcast) - BcastCap + 1]

(* what holds of every receive, lagged or not: it returns at once when the *)
(* subscriber is behind, a subscriber that is behind gets the lagged       *)
(* signal, the subscription stays open, and nothing but the receiving      *)
(* subscriber changes                                                      *)
LagIsLocal ==
  /\ [](\A s \in Subscribers :
          (subs[s].on /\ Behind(bcast, subs[s].next)) => ENABLED Recv(s))
  /\ [][\A s \in Subscribers :
          Received(s) => /\ Behind(bcast, subs[s].next) => subs'[s].last = "lagged"
                         /\ subs'[s].on
                         /\ bcast' = bcast
                         /\ \A r \in Subscribers \ {s} : subs'[r] = subs[r]
                         /\ UNCHANGED <<conn, made, rx, accepted, bridge, tick, forwarded>>]_vars

(* C17 as stated: a subscriber that is behind the broadcast buffer gets a  *)
(* lagged signal on its next receive, and the receive that follows a       *)
(* lagged signal returns the oldest retained tick; the lag blocks nobody,  *)
(* closes nothing and loses data for that subscriber only.                 *)
C17_LaggedThenOldestRetained ==
  /\ LagIsLocal
  /\ [][\A s \in Subscribers :
          (Received(s) /\ subs[s].last = "lagged")
            => /\ subs'[s].last = "tick"
               /\ Last(subs'[s].got) = OldestRetained]_vars

(* C17 amended: the receive that follows a lagged signal returns the       *)
(* oldest retained tick if nothing was published in between; if a tick was *)
(* published in between, the subscriber is behind again and the receive    *)
(* gives another lagged signal.                                            *)
C17_LaggedThenOldestRetainedOrLaggedAgain ==
  /\ LagIsLocal
  /\ [][\A s \in Subscribers :
          (Received(s) /\ subs[s].last = "lagged")
            => IF Behind(bcast, subs[s].next)
               THEN subs'[s].last = "lagged" /\ subs'[s].got = subs[s].got
               ELSE /\ subs'[s].last = "tick"
                    /\ subs'[s].got = Append(subs[s].got, OldestRetained)]_vars

(* a subscriber that got a lagged signal and then a tick, next to one that *)
(* kept up and received all three ticks                                    *)
C17_Witness ==
  \E s \in Subscribers : \E r \in Subscribers \ {s} :
    /\ subs[s].lags = 1 /\ subs[s].last = "tick" /\ Len(subs[s].got) = 1
    /\ subs[r].lags = 0 /\ Len(subs[r].got) = 3

(* a subscriber that got two lagged signals in a row *)
C17_WitnessLaggedAgain ==
  \E s \in Subscribers : subs[s].lags = 2 /\ subs[s].got = <<>>

(* C18: producers are never slowed by a slow consumer.  A bridging task    *)
(* that holds a tick can always publish it, whatever the subscribers'      *)
(* cursors; and with nothing assumed of the subscribers, a full input      *)
(* channel gets room again and a connector waiting on send completes it.   *)
C18_ProducersNeverWaitForSubscribers ==
  /\ [](\A c \in Chans : bridge[c] = "send" => ENABLED BridgeSend(c))
  /\ \A c \in Chans : (Len(rx[c]) = InCap) ~> (Len(rx[c]) < InCap)
  /\ \A c \in Chans : (conn[c] = "sending") ~> (conn[c] = "reading")

(* a subscriber that subscribed first and never received: the broadcast    *)
(* buffer of one tick was published to three times past it, and the input  *)
(* channels are drained                                                    *)
C18_Witness ==
  \E s \in Subscribers :
    /\ subs[s].on /\ subs[s].next = 0 /\ subs[s].last = "none"
    /\ Len(bcast) = MaxTicks
    /\ Behind(bcast, subs[s].next)
    /\ \A c \in Chans : rx[c] = <<>> /\ forwarded[c] = accepted[c]

(* an input channel that is full while its connector waits on send *)
C18_WitnessFull ==
  \E c \in Chans : Len(rx[c]) = InCap /\ conn[c] = "sending"

(* C19: the bridging task ends once every sender of its input channel is   *)
(* dropped, and only then and only after it has forwarded every tick the   *)
(* channel accepted: a task that has ended has a closed and empty channel, *)
(* holds no tick and has forwarded all accepted ticks.                     *)
C19_BridgeEndsWhenClosedAndDrained ==
  /\ [](\A c \in Chans :
          bridge[c] = "done" => /\ SendersDropped(c)
                                /\ rx[c] = <<>> /\ tick[c] = <<>>
                                /\ forwarded[c] = accepted[c])
  /\ \A c \in Chans : SendersDropped(c) ~> (bridge[c] = "done")

(* a bridging task that has ended after forwarding two ticks, next to one  *)
(* that waits on an open and empty channel                                 *)
C19_Witness ==
  \E c \in Chans : \E d \in Chans \ {c} :
    /\ bridge[c] = "done" /\ Len(forwarded[c]) = 2
    /\ bridge[d] = "recv" /\ rx[d] = <<>> /\ conn[d] = "reading"

(* C20: a venue connector never returns: neither a failed connection       *)
(* attempt nor the end of the stream makes run_binance_ws, run_coinbase_ws *)
(* or run_kraken_ws return.                                                *)
C20_ConnectorNeverReturns ==
  \A c \in Chans : conn[c] \notin {"returned_ok", "returned_err"}

(* ========================================================== claims on run_ws *)
(* run_ws moves from one place of its loop to another in this step *)
WsMoves == ws'.pc # ws.pc

(* C21: run_ws has no terminal state.  It is always connecting, streaming  *)
(* or in the backoff sleep; it leaves connecting for streaming or for the  *)
(* sleep, streaming for the sleep only, and the sleep for connecting only; *)
(* it never returns an error.                                              *)
C21_NoTerminalState ==
  /\ [](ws.pc \in {"connecting", "streaming", "sleeping"})
  /\ [][WsMoves =>
          /\ ws.pc = "connecting" => ws'.pc \in {"streaming", "sleeping"}
          /\ ws.pc = "streaming" => ws'.pc = "sleeping"
          /\ ws.pc = "sleeping" => ws'.pc = "connecting"]_vars

(* C22: the delay of the k-th consecutive sleep since the last successful  *)
(* connection is min(2^(k-1), 30) seconds, at least 1 and at most 30, and  *)
(* the doubling of the 64-bit backoff counter never overflows.             *)
C22_BackoffSchedule ==
  /\ ws.pc # "panicked"
  /\ ws.backoff # BackoffZero
  /\ ws.pc = "sleeping" =>
       /\ ws.delay = Pow2Capped(ws.k - 1, 1, BackoffCap)
       /\ 1 <= ws.delay /\ ws.delay <= BackoffCap

(* C23: backoff reset.  Whatever number of failures preceded a successful  *)
(* connection, the sleep that follows that session is 1 second, and the    *)
(* doubling restarts from there: 2, 4, 8, 16 and then 30 seconds.          *)
C23_BackoffReset ==
  /\ [][(ws.pc = "streaming" /\ ws'.pc = "sleeping") => ws'.delay = 1 /\ ws'.k = 1]_vars
  /\ [](ws.pc = "sleeping" =>
          /\ ws.k = 2 => ws.delay = 2
          /\ ws.k = 3 => ws.delay = 4
          /\ ws.k = 4 => ws.delay = 8
          /\ ws.k = 5 => ws.delay = 16
          /\ ws.k = 6 => ws.delay = 30)

(* a connection that succeeded after seven failures, whose session ended:  *)
(* the sleep is 1 second                                                   *)
C23_Witness ==
  /\ ws.pc = "sleeping"
  /\ ws.before = 7
  /\ ws.k = 1
  /\ ws.delay = 1

(* ------------------------------------------------------------ venue feeds *)
TickVenues == {"binance", "coinbase", "kraken"}

(* the frame is not of a type its session reads *)
Unrecognized ==
  \/ feed.venue = "coinbase" /\ feed.msg.type # "ticker"
  \/ feed.venue = "kraken" /\ (feed.msg.json # "array" \/ feed.msg.n < 4)
  \/ feed.venue = "coinbase_l2" /\ feed.msg.type \notin {"snapshot", "l2update"}
  \/ feed.venue = "kraken_book" /\ (feed.msg.json # "array" \/ feed.msg.n < 2)

(* a field the emitted value is made of is absent or garbled *)
FieldMissing ==
  \/ feed.venue \in {"binance", "coinbase"} /\ feed.msg.s.st # "ok"
  \/ feed.venue \in TickVenues /\ (feed.msg.b.st # "ok" \/ feed.msg.a.st # "ok")
  \/ feed.venue \in {"coinbase_l2", "kraken_book"}
       /\ (feed.msg.bids # "ok" \/ feed.msg.asks # "ok")

Malformed ==
  /\ feed.venue # "none"
  /\ feed.msg.json = "invalid" \/ Unrecognized \/ FieldMissing

(* C24: a frame that is not valid JSON, is of an unrecognized type, or     *)
(* lacks or garbles a required field (symbol/pair, bid, ask, book levels)  *)
(* has no tick and no order book emitted for it.                           *)
C24_MalformedDropped == Malformed => feed.out = <<>>

(* C25: for a Kraken frame [channelId, data, channelName, pair] whose data *)
(* carries b and a, the one tick emitted has exchange "kraken", the fourth *)
(* element as its pair, data.b[0] as its bid and data.a[0] as its ask.     *)
C25_KrakenTick ==
  (/\ feed.venue = "kraken" /\ feed.msg.json = "array" /\ feed.msg.n = 4
   /\ feed.msg.b.st = "ok" /\ feed.msg.a.st = "ok")
  => feed.out = <<MarketTick("kraken", feed.msg.pair, feed.msg.b.v, feed.msg.a.v)>>

(* ------------------------------------------------------------ backpressure *)
(* the ticks connector c has built, in the order built *)
Built(c) == [k \in 1..made[c] |-> <<c, k>>]

(* the tick connector c holds while it waits on tx.send *)
Pending(c) == IF conn[c] = "sending" THEN <<<<c, made[c]>>>> ELSE <<>>

(* C26: an input channel never holds more ticks than its capacity; a       *)
(* connector that finds the channel full stays on its send until the       *)
(* bridging task has taken a tick; and every tick a connector has built is *)
(* forwarded, held by the bridging task, in the channel or held by the     *)
(* waiting connector, in the order built: none is dropped.                 *)
C26_Backpressure ==
  /\ [](\A c \in Chans :
          /\ Len(rx[c]) <= InCap
          /\ forwarded[c] \o tick[c] \o rx[c] \o Pending(c) = Built(c))
  /\ [][\A c \in Chans :
          (conn[c] = "sending" /\ Len(rx[c]) = InCap) => conn'[c] = "sending"]_vars

(* connector A built its third tick while the channel held the first two   *)
(* and completed the send after the bridging task took the first           *)
C26_Witness ==
  /\ rx["A"] = <<<<"A", 2>>, <<"A", 3>>>>
  /\ tick["A"] = <<<<"A", 1>>>>
  /\ conn["A"] = "reading"

(* ------------------------------------------------------- connector handles *)
(* C27: once stop_connector(h) has returned true, the task started under h *)
(* eventually ends (and sends no more); the call changes no other task.    *)
C27_StopEndsConnector ==
  /\ \A h \in HandleIds : (h \in reg.stopped) ~> (reg.task[h].pc = "ended")
  /\ [][\A h \in HandleIds :
          (h \notin reg.stopped /\ h \in reg'.stopped)
            => \A g \in HandleIds \ {h} : reg'.task[g] = reg.task[g]]_vars

(* -------------------------------------------------------- subscription loop *)
(* C28: after a lagged signal the loop still runs and its next receive is  *)
(* ready; the loop returns only on closed (every broadcast sender gone and *)
(* nothing left to read), with Ok, and once every sender is gone it does   *)
(* return; a receive that yields a tick gives exactly that tick to the     *)
(* callback, after the ticks given before, and nothing else reaches it.    *)
C28_SubscriptionLoop ==
  /\ [](\A s \in Subscribers :
          subs[s].last = "lagged" => subs[s].ret = "none" /\ ENABLED Recv(s))
  /\ [][\A s \in Subscribers :
          subs'[s].ret # subs[s].ret
            => /\ subs'[s].ret = "ok"
               /\ AllSendersDropped
               /\ subs[s].next = Len(bcast)
               /\ subs'[s].got = subs[s].got]_vars
  /\ [][\A s \in Subscribers :
          subs[s].on
            => IF subs'[s].next # subs[s].next /\ subs'[s].last = "tick"
               THEN subs'[s].got = Append(subs[s].got, bcast[subs[s].next + 1])
               ELSE subs'[s].got = subs[s].got]_vars
  /\ \A s \in Subscribers :
       (subs[s].on /\ AllSendersDropped) ~> (subs[s].ret = "ok")

(* a loop that lagged, went on to give ticks to the callback and returned  *)
(* Ok on closed                                                            *)
C28_Witness ==
  /\ subs["S1"].ret = "ok"
  /\ subs["S1"].lags >= 1
  /\ Len(subs["S1"].got) >= 1

(* --------------------------------------------------------- the id counter *)
(* the entries of an input list that insert an order *)
Inserting(l) == Len(SelectSeq(l, LAMBDA e : e[2] > 0))

(* the ids of the resting orders that were drawn from the counter (the     *)
(* orders of place_limit carry the id 0, which the counter never gives)    *)
DrawnIds(b) == {o.id : o \in AllOrders(b.bids) \cup AllOrders(b.asks)} \ {0}

RECURSIVE CountDrawn(_, _)
CountDrawn(levels, keys) ==
  IF keys = {} THEN 0
  ELSE LET p == CHOOSE k \in keys : TRUE
       IN Len(SelectSeq(levels[p], LAMBDA o : o.id # 0)) + CountDrawn(levels, keys \ {p})

NumDrawn(b) ==
  CountDrawn(b.bids.levels, DOMAIN b.bids.levels) + CountDrawn(b.asks.levels, DOMAIN b.asks.levels)

(* C29: the id counter never decreases; apply_snapshot and apply_delta     *)
(* advance it by one for every order they insert and the other operations  *)
(* leave it alone; the ids they assign are the counter values passed over, *)
(* so no two orders ever drawn from the counter share an id.               *)
C29_SeqMonotone ==
  /\ [][book'.seq >= book.seq]_vars
  /\ []((IsSnapshot \/ IsDelta)
          => /\ book.seq = call.pre.seq + Inserting(call.bid_l) + Inserting(call.ask_l)
             /\ DrawnIds(book) \ DrawnIds(call.pre) \subseteq call.pre.seq..(book.seq - 1))
  /\ []((IsPlace \/ IsExec) => book.seq = call.pre.seq)
  /\ [](/\ DrawnIds(book) \subseteq 1..(book.seq - 1)
        /\ Cardinality(DrawnIds(book)) = NumDrawn(book))

(* a delta inserted the order with id 2 into a book that still holds the   *)
(* order with id 1 of an earlier call                                      *)
C29_Witness ==
  /\ IsDelta
  /\ call.pre.seq = 2
  /\ book.seq = 3
  /\ DrawnIds(book) = {1, 2}

(* ------------------------------------------------------------ crossed book *)
(* C30: in every reachable state with both sides non-empty, the best bid   *)
(* is strictly below the best ask.                                         *)
C30_Uncrossed ==
  (best_bid(book) # <<>> /\ best_ask(book) # <<>>) => best_bid(book)[1] < best_ask(book)[1]

(* ------------------------------------------------------ signature features *)
RECURSIVE PowerSum(_, _)
PowerSum(d, n) == IF n = 0 THEN 0 ELSE d * (1 + PowerSum(d, n - 1))

IsSignature == sig.op = "compute_truncated_signature"

(* C31: for trunc in 1..3, compute_feature_dim(d, trunc) is d + ... +      *)
(* d^trunc, and it is the length of the vector compute_truncated_signature *)
(* returns for a non-empty trajectory of d-dimensional points; for trunc   *)
(* outside 1..3 or an empty trajectory the result is the BadInput error.   *)
C31_FeatureDim ==
  /\ (sig.op = "compute_feature_dim" /\ sig.trunc \in 1..3)
       => sig.dim = PowerSum(sig.d, sig.trunc)
  /\ IsSignature
       => IF sig.trunc \in 1..3 /\ sig.traj # <<>>
          THEN /\ sig.out.ok
               /\ Len(sig.out.feat) = compute_feature_dim(Len(sig.traj[1]), sig.trunc)
               /\ Len(sig.out.feat) = PowerSum(Len(sig.traj[1]), sig.trunc)
          ELSE sig.out = BadInput

(* the 14 features of a trajectory of three 2-dimensional points at level 3 *)
C31_Witness ==
  /\ IsSignature
  /\ sig.trunc = 3
  /\ Len(sig.traj) = 3
  /\ Len(sig.traj[1]) = 2
  /\ Len(sig.out.feat) = 14

(* the error for an empty trajectory *)
C31_WitnessEmpty == IsSignature /\ sig.trunc = 2 /\ sig.traj = <<>> /\ ~sig.out.ok

(* --------------------------------------------------------- CoinGecko poller *)
(* the ticks a cycle has sent for the answers res to the pairs polled *)
RECURSIVE TicksOf(_, _)
TicksOf(res, pairs) ==
  IF res = <<>> THEN <<>>
  ELSE (IF Head(res).kind = "price"
        THEN <<MarketTick("coingecko", Head(pairs), Head(res).price, Head(res).price)>>
        ELSE <<>>) \o TicksOf(Tail(res), Tail(pairs))

(* C32: a request that gives no price sends no tick for its pair and the   *)
(* loop goes on: the pairs are polled in list order, every pair of the     *)
(* list is polled before the sleep, the ticks of a cycle are exactly those *)
(* of the pairs that gave a price, each with bid = ask = price, the sleep  *)
(* is followed by the first pair of the next cycle, and the function never *)
(* returns: once called it always has a next step.                         *)
C32_PollerKeepsPolling ==
  /\ [](poll.pc \in {"idle", "request", "sending", "sleeping"})
  /\ [](poll.pc # "idle" => ENABLED NextPoll)
  /\ [](/\ Len(poll.res) <= Len(poll.pairs)
        /\ poll.out \o poll.hold = TicksOf(poll.res, poll.pairs)
        /\ poll.pc = "request" => poll.i = Len(poll.res) + 1 /\ poll.i <= Len(poll.pairs)
        /\ poll.pc = "sending" => poll.i = Len(poll.res) /\ poll.hold # <<>>
        /\ poll.pc = "sleeping" => Len(poll.res) = Len(poll.pairs))
  /\ [][(poll.pc = "request" /\ Len(poll'.res) = Len(poll.res) + 1
           /\ Last(poll'.res).kind # "price")
          => /\ poll'.out = poll.out
             /\ poll'.hold = <<>>
             /\ poll'.pc = IF poll.i < Len(poll.pairs) THEN "request" ELSE "sleeping"]_vars
  /\ [][(poll.pc = "sleeping" /\ poll.pairs # <<>>)
          => poll'.pc = "request" /\ poll'.i = 1 /\ poll'.res = <<>> /\ poll'.out = <<>>]_vars

(* a cycle over three pairs whose second request failed: ticks for the     *)
(* first and the third                                                     *)
C32_Witness ==
  /\ poll.pc = "sleeping"
  /\ Len(poll.pairs) = 3
  /\ Len(poll.res) = 3
  /\ poll.res[1].kind = "price"
  /\ poll.res[2].kind = "failed"
  /\ poll.res[3].kind = "price"
  /\ Len(poll.out) = 2

(* ---------------------------------------------------------- book processor *)
(* the events the processor has taken from its input channel *)
Processed == Len(proc.events) - Len(proc.in_q)

(* the book after the first k of the events, applied in order to a new book *)
RECURSIVE BookAfter(_, _)
BookAfter(events, k) ==
  IF k = 0 THEN OrderBookNew ELSE process_event(BookAfter(events, k - 1), events[k])

(* the processor waits on a full output channel that the caller still holds *)
ProcBlocked ==
  proc.pc = "send" /\ proc.out_rx = "alive" /\ Len(proc.out_q) = ProcOutCap

(* the book changes only in the processor's step from recv to send, and it *)
(* is at every moment the result of the events taken so far, in order      *)
SingleOwnerInOrder ==
  /\ [](proc.state = BookAfter(proc.events, Processed))
  /\ [][proc'.state # proc.state => proc.pc = "recv" /\ proc'.pc = "send"]_vars
  /\ [](proc.pc = "done" => proc.in_tx = "dropped" /\ proc.in_q = <<>>)

(* C33 as stated: the book is owned by the processor task and the events   *)
(* are applied in arrival order; for every event taken exactly one book,   *)
(* the one that results from it, is emitted on the output channel, in the  *)
(* same order; and the task ends once the input channel is closed.         *)
C33_OneStatePerEvent ==
  /\ SingleOwnerInOrder
  /\ [](/\ Len(proc.emitted) + Len(proc.hold) = Processed
        /\ \A k \in 1..Len(proc.emitted) : proc.emitted[k] = BookAfter(proc.events, k))
  /\ (proc.in_tx = "dropped") ~> (proc.pc = "done")

(* C33 amended: the same while the caller holds the output receiver; once  *)
(* it is dropped the events are still applied in order but their books are *)
(* discarded; and after the input closes the task ends unless it waits on  *)
(* a full output channel that the caller does not read.                    *)
C33_OneStatePerEventWhileReceived ==
  /\ SingleOwnerInOrder
  /\ [](/\ Len(proc.emitted) + Len(proc.hold) <= Processed
        /\ proc.out_rx = "alive" => Len(proc.emitted) + Len(proc.hold) = Processed
        /\ \A k \in 1..Len(proc.emitted) : proc.emitted[k] = BookAfter(proc.events, k))
  /\ [][(proc.pc = "send" /\ proc.out_rx = "dropped" /\ proc'.pc # "send")
          => proc'.emitted = proc.emitted /\ proc'.pc = "recv"]_vars
  /\ (proc.in_tx = "dropped") ~> (proc.pc = "done" \/ ProcBlocked)

(* three events taken, the books of the first two emitted in order, the    *)
(* third discarded after the caller dropped the receiver, the task ended   *)
C33_Witness ==
  /\ proc.pc = "done"
  /\ Processed = 3
  /\ Len(proc.emitted) = 2
  /\ proc.emitted[1] # proc.emitted[2]
  /\ proc.out_rx = "dropped"

(* the task waits on the full output channel after the input has closed *)
C33_WitnessBlocked == ProcBlocked /\ proc.in_tx = "dropped" /\ proc.in_q = <<>>

(* ------------------------------------------- one order of the broadcast *)
(* p can be obtained from q by leaving values out *)
RECURSIVE IsSubseq(_, _)
IsSubseq(p, q) ==
  IF p = <<>> THEN TRUE
  ELSE IF q = <<>> THEN FALSE
  ELSE IF Head(p) = Head(q) THEN IsSubseq(Tail(p), Tail(q))
  ELSE IsSubseq(p, Tail(q))

(* C34: single total order of the broadcast.  What a subscriber has        *)
(* received is a subsequence of the one sequence of ticks published on the *)
(* broadcast channel, and no two subscribers have received two ticks in    *)
(* opposite relative orders.                                               *)
C34_SingleTotalOrder ==
  /\ \A s \in Subscribers : IsSubseq(subs[s].got, bcast)
  /\ \A s1 \in Subscribers : \A s2 \in Subscribers :
       \A i \in 1..Len(subs[s1].got) : \A j \in 1..Len(subs[s1].got) :
         \A k \in 1..Len(subs[s2].got) : \A l \in 1..Len(subs[s2].got) :
           (i < j /\ subs[s1].got[i] = subs[s2].got[k] /\ subs[s1].got[j] = subs[s2].got[l])
             => k < l

(* both subscribers received the same two ticks, one of each input channel, *)
(* and one of the subscribers a third tick that the other one missed       *)
C34_Witness ==
  \E s1 \in Subscribers : \E s2 \in Subscribers :
    /\ Len(subs[s1].got) = 3
    /\ Len(subs[s2].got) = 2
    /\ Range(subs[s2].got) \subseteq Range(subs[s1].got)
    /\ \E t \in Range(subs[s2].got) : t[1] = "A"
    /\ \E t \in Range(subs[s2].got) : t[1] = "B"

C36_PositiveQuantities ==
  /\ \A o \in AllOrders(book.bids) \cup AllOrders(book.asks) : o.qty > 0
  /\ IsExec => \A i \in 1..Len(call.fills) : call.fills[i].qty > 0

(* ------------------------------------------------ frame of execute_market *)
(* the side execute_market does not consume: bids for Buy, asks for Sell *)
Untouched(b) == IF call.side = "Buy" THEN b.bids ELSE b.asks

(* C37: frame of execute_market.  A Buy leaves the bids and a Sell the     *)
(* asks as they were; the timestamp and the id counter of the book are as  *)
(* they were; and a call with qty <= 0 returns (0, 0, no fills) and leaves *)
(* the whole book as it was.                                               *)
C37_ExecuteMarketFrame ==
  IsExec =>
    /\ Untouched(book) = Untouched(call.pre)
    /\ book.ts = call.pre.ts
    /\ book.seq = call.pre.seq
    /\ call.qty <= 0 =>
         /\ call.filled = 0 /\ call.cost = 0 /\ call.fills = <<>>
         /\ book = call.pre

(* a Sell that consumed bids of a book holding asks and a timestamp *)
C37_Witness ==
  /\ IsExec /\ call.side = "Sell" /\ call.filled > 0
  /\ book.bids # call.pre.bids
  /\ DOMAIN call.pre.asks.levels # {}
  /\ call.pre.ts > 0 /\ call.pre.seq > 1

(* a call with a negative quantity on a side that holds orders *)
C37_WitnessNonPositive ==
  /\ IsExec /\ call.qty < 0
  /\ DOMAIN Consumed(call.pre).levels # {}

(* --------------------------------------------------- frame of place_limit *)
(* the side opposite to the one place_limit rests the order on *)
Opposite(b) == IF call.side = "Buy" THEN b.asks ELSE b.bids

(* the price crosses the opposite best price of the book before the call *)
Crosses ==
  LET best == IF call.side = "Buy" THEN best_ask(call.pre) ELSE best_bid(call.pre)
  IN /\ best # None
     /\ IF call.side = "Buy" THEN call.price >= best[1] ELSE call.price <= best[1]

(* C38: frame of place_limit.  It matches nothing and returns no fill,     *)
(* whether or not the price crosses the opposite best price: the opposite  *)
(* side and the book timestamp are as before the call, every queue of the  *)
(* same side at another price is as before, and the queue at the given     *)
(* price is the one before the call with one order, of the given price,    *)
(* quantity and timestamp, added at its tail.                              *)
C38_PlaceLimitFrame ==
  IsPlace =>
    /\ call.filled = 0 /\ call.cost = 0 /\ call.fills = <<>>
    /\ Opposite(book) = Opposite(call.pre)
    /\ book.ts = call.pre.ts /\ book.seq = call.pre.seq
    /\ DOMAIN Rested(book).levels = DOMAIN Rested(call.pre).levels \cup {call.price}
    /\ \A p \in DOMAIN Rested(call.pre).levels \ {call.price} :
         Rested(book).levels[p] = Rested(call.pre).levels[p]
    /\ LET q == QueueAt(Rested(book), call.price)
       IN /\ Len(q) = Len(QueueAt(Rested(call.pre), call.price)) + 1
          /\ SubSeq(q, 1, Len(q) - 1) = QueueAt(Rested(call.pre), call.price)
          /\ Last(q).price = call.price /\ Last(q).qty = call.qty /\ Last(q).ts = call.t

(* a limit order whose price crosses the opposite best price, resting      *)
(* with the opposite order untouched                                       *)
C38_Witness ==
  /\ IsPlace /\ Crosses /\ call.qty > 0
  /\ NumOrders(Opposite(book)) = 1
  /\ NumOrders(Rested(book)) = 1

(* a limit order added behind an order already resting at its price, at   *)
(* a later time than the book's timestamp                                  *)
C38_WitnessBehind ==
  /\ IsPlace
  /\ Len(QueueAt(Rested(book), call.price)) = 2
  /\ call.t # call.pre.ts

(* ------------------------------------------------------- handle registry *)
(* C39: the ids the start calls return are pairwise distinct and strictly  *)
(* increasing in the order of return, whatever start and stop_connector    *)
(* calls run at the same time; every returned id was inserted into the     *)
(* registry exactly once, under a key that was absent; a thread never      *)
(* takes next_handle while it holds handles, and whenever a thread is      *)
(* inside a call some thread inside a call can take its next step.         *)
C39_HandleRegistry ==
  /\ [](\A i \in 1..Len(lk.returned) : \A j \in 1..Len(lk.returned) :
          i < j => lk.returned[i] < lk.returned[j])
  /\ [](/\ lk.fresh
        /\ \A h \in LockIds : lk.inserts[h] <= 1
        /\ \A i \in 1..Len(lk.returned) : lk.inserts[lk.returned[i]] = 1)
  /\ [][\A t \in Threads :
          (lk'.nh_owner = t /\ lk.nh_owner # t) => lk.h_owner # t]_vars
  /\ []((\E t \in Threads : lk.pc[t] # "idle") => ENABLED (\E t \in Threads : LockStep(t)))

(* after two ids were returned, a start call that holds next_handle waits  *)
(* for handles, which a stop_connector call of another thread holds        *)
C39_Witness ==
  \E t1 \in Threads : \E t2 \in Threads :
    /\ lk.pc[t1] = "start_drawn" /\ lk.nh_owner = t1
    /\ lk.pc[t2] = "stop_locked" /\ lk.h_owner = t2
    /\ Len(lk.returned) = 2

(* three ids returned, the second of them stopped since *)
C39_WitnessStopped ==
  /\ lk.returned = <<1, 2, 3>>
  /\ lk.handles = {1, 3}
====
